---- MODULE Spec2Model ----
(***************************************************************************)
(* claude-orchestrator: the feature store (state.py), the orchestration    *)
(* loop with retry (orchestrator.py), one call of run_feature (runner.py)  *)
(* and the command safety policy (hooks.py), as state machines.            *)
(*                                                                         *)
(* Texts (error messages, session ids, commit hashes) are sequences of     *)
(* one-character strings; Python's None is the value None below, which is  *)
(* no such sequence.  An optional integer (start_from, stop_after) is the  *)
(* empty set (None) or a singleton.                                        *)
(***************************************************************************)
EXTENDS Integers, Sequences, FiniteSets, TLC

VARIABLES
    files,       \* the project directory: path |-> content
    features,    \* StateManager._features
    config,      \* OrchestratorConfig: start_from_feature, stop_after_feature, max_retries
    pc,          \* position of Orchestrator.run
    save_ret,    \* where save_features returns to
    cur,         \* index in features of the loop's local `feature` (0: none)
    attempt,     \* _execute_with_retry: loop variable
    retries_remaining,      \* _execute_with_retry: local
    last_result,            \* _execute_with_retry: local (NoResult: None)
    result,                 \* the FeatureResult run() got from _execute_with_retry
    consecutive_failures,   \* run(): local
    shutdown_requested,     \* Orchestrator._shutdown_requested
    call,        \* the last call of the store's interface: operation, arguments, result
    execs,       \* history: run_feature calls for feature cur since the loop first
                 \* selected it, or since the operator's last retry decision for it
    base,        \* history: attempts of feature cur at that moment
    round,       \* history of the current retry round
    committed,   \* history: the collection as of the last completed save (or first load)
    resumed,     \* history: the loop's first selection after a restart is pending
    streak,      \* history: failed outcomes in a row since the last success, the last
                 \* continue answer or the start of the process
    log,         \* history: the run_feature calls and progress entries of a run in
                 \* which every call succeeded and no signal arrived (else Dirty)
    signals,     \* history: interrupt signals handled by the process (2: two or more)
    progress,    \* history of the progress log: outcomes the process persisted
                 \* whose entry is not appended yet, and the entry appended last
    runner       \* FeatureRunner.run_feature: its position and locals

vars == <<files, features, config, pc, save_ret, cur, attempt, retries_remaining,
          last_result, result, consecutive_failures, shutdown_requested, call,
          execs, base, round, committed, resumed, streak, log, signals, progress,
          runner>>

loopvars == <<pc, save_ret, cur, attempt, retries_remaining, last_result, result,
              consecutive_failures, shutdown_requested>>

histvars == <<execs, base, round, committed, resumed, streak, log, signals, progress>>

-----------------------------------------------------------------------------
(* Bounds of the model *)

\* number of records of the persisted feature list
NumFeatures == 2

\* number of arguments of the rm commands the safety policy is evaluated on
MaxArgs == 3

-----------------------------------------------------------------------------
(* Program constants *)

\* OrchestratorConfig.max_retries
DefaultMaxRetries == 3

\* OrchestratorConfig.retry_backoff_base (2.0)
DefaultBackoffBase == 2

\* OrchestratorConfig.retry_backoff_max (60.0)
DefaultBackoffMax == 60

\* run(): max_consecutive_failures
max_consecutive_failures == 3

\* the history counter execs stops counting here, past every value a claim
\* compares it with
ExecCap == DefaultMaxRetries + 2

-----------------------------------------------------------------------------
(* Texts *)

None == <<"None">>

Truthy(text) == text /= None /\ Len(text) > 0

ErrBuildFailed == <<"B", "u", "i", "l", "d", " ", "f", "a", "i", "l", "e", "d">>

ErrEacces == <<"E", "A", "C", "C", "E", "S", ":", " ", "x">>

SessionId == <<"s", "1">>

CommitHash == <<"a", "b", "c">>

\* the hash of the commit that was the latest before the session started
OldCommitHash == <<"0", "0", "0">>

UpperCase == <<"A", "B", "C", "D", "E", "F", "G", "H", "I", "J", "K", "L", "M",
               "N", "O", "P", "Q", "R", "S", "T", "U", "V", "W", "X", "Y", "Z">>

LowerCase == <<"a", "b", "c", "d", "e", "f", "g", "h", "i", "j", "k", "l", "m",
               "n", "o", "p", "q", "r", "s", "t", "u", "v", "w", "x", "y", "z">>

\* str.lower()
lower(text) ==
    [i \in 1..Len(text) |->
        IF \E k \in 1..26 : UpperCase[k] = text[i]
        THEN LowerCase[CHOOSE k \in 1..26 : UpperCase[k] = text[i]]
        ELSE text[i]]

\* kw in text
contains(text, kw) ==
    \E i \in 0..(Len(text) - Len(kw)) : \A j \in 1..Len(kw) : text[i + j] = kw[j]

non_retriable_keywords ==
    { <<"u", "s", "e", "r", " ", "d", "e", "n", "i", "e", "d">>,
      <<"u", "s", "e", "r", " ", "c", "h", "o", "s", "e", " ", "t", "o", " ",
        "a", "b", "o", "r", "t">>,
      <<"p", "e", "r", "m", "i", "s", "s", "i", "o", "n", " ", "d", "e", "n", "i", "e", "d">>,
      <<"e", "a", "c", "c", "e", "s">>,
      <<"a", "u", "t", "h", "e", "n", "t", "i", "c", "a", "t", "i", "o", "n", " ",
        "r", "e", "q", "u", "i", "r", "e", "d">> }

\* a classification that finds every error retriable
retry_any_error(error) == TRUE

\* Orchestrator._is_retriable_error
is_retriable_error(error) ==
    IF ~Truthy(error) THEN TRUE
    ELSE ~(\E kw \in non_retriable_keywords : contains(lower(error), kw))

-----------------------------------------------------------------------------
(* models.py *)

FeatureStatus == {"pending", "in_progress", "passed", "failed", "skipped"}

FeatureFields == {"id", "name", "passes", "steps", "status", "attempts",
                  "last_error", "last_session_id", "commit_hash"}

\* Feature: the defaults of the optional fields
FeatureDefault(k) ==
    CASE k = "passes" -> FALSE
      [] k = "steps" -> <<>>
      [] k = "status" -> "pending"
      [] k = "attempts" -> 0
      [] OTHER -> None

\* FeatureResult (feature_id is the feature the loop ran; duration, cost and
\* retries_used only reach the log)
FeatureResult(success, error, session_id, commit_hash) ==
    [success |-> success, error |-> error, session_id |-> session_id,
     commit_hash |-> commit_hash]

NoResult == [success |-> FALSE, error |-> None, session_id |-> None,
             commit_hash |-> None, none |-> TRUE]

-----------------------------------------------------------------------------
(* Files *)

Absent == [kind |-> "absent"]

\* a file opened for writing whose content is not (yet) a complete JSON text
Partial == [kind |-> "partial"]

Complete(data) == [kind |-> "complete", data |-> data]

\* StateManager.features_path
features_path == "features.json"

\* a save_features that writes features.json in place
tmp_path_in_place == "features.json"

\* save_features: tmp_path = features_path.with_suffix(".json.tmp")
tmp_path == "features.json.tmp"

\* open(path, "w"): the file is created or truncated
open_w(fs, path) == [fs EXCEPT ![path] = Partial]

\* json.dump, f.write and the close at the end of the with block
write_close(fs, path, text) == [fs EXCEPT ![path] = text]

\* Path.rename: replaces the target atomically; onto itself it changes nothing
rename(fs, from, to) ==
    IF from = to THEN fs ELSE [fs EXCEPT ![to] = fs[from], ![from] = Absent]

-----------------------------------------------------------------------------
(* state.py: StateManager *)

\* load_features: one item of the JSON array
load_item(item) ==
    LET status == IF "status" \in DOMAIN item THEN item.status
                  ELSE IF "passes" \in DOMAIN item /\ item.passes THEN "passed"
                  ELSE "pending"
    IN [k \in FeatureFields |->
           IF k = "status" THEN status
           ELSE IF k \in DOMAIN item THEN item[k]
           ELSE FeatureDefault(k)]

\* load_features: the collection parsed from a complete file
load_features(file) == [i \in 1..Len(file.data) |-> load_item(file.data[i])]

\* entries that always hold the status
entry_keys_with_status(f) ==
    {"id", "name", "passes", "steps", "status"}
        \cup (IF f.attempts > 0 THEN {"attempts"} ELSE {})
        \cup (IF Truthy(f.last_error) THEN {"last_error"} ELSE {})
        \cup (IF Truthy(f.last_session_id) THEN {"last_session_id"} ELSE {})
        \cup (IF Truthy(f.commit_hash) THEN {"commit_hash"} ELSE {})

\* save_features: the keys of the entry written for feature f
entry_keys(f) ==
    {"id", "name", "passes", "steps"}
        \cup (IF f.attempts > 0 THEN {"attempts"} ELSE {})
        \cup (IF Truthy(f.last_error) THEN {"last_error"} ELSE {})
        \cup (IF Truthy(f.last_session_id) THEN {"last_session_id"} ELSE {})
        \cup (IF Truthy(f.commit_hash) THEN {"commit_hash"} ELSE {})
        \cup (IF f.status \notin {"pending", "passed"} THEN {"status"} ELSE {})

\* save_features: the entry written for feature f
save_entry(f) == [k \in entry_keys(f) |-> f[k]]

\* save_features: the JSON text written to the temporary file
serialize(fs) == Complete([i \in 1..Len(fs) |-> save_entry(fs[i])])

\* a scan that returns skipped features too
eligible_skipped_too(f, start_from) ==
    /\ ~(\E s \in start_from : f.id < s)
    /\ ~f.passes

\* a scan that returns pending features only
eligible_pending_only(f, start_from) ==
    /\ ~(\E s \in start_from : f.id < s)
    /\ ~f.passes
    /\ f.status = "pending"

\* get_next_feature: the condition of the scan's return
eligible(f, start_from) ==
    /\ ~(\E s \in start_from : f.id < s)
    /\ ~f.passes
    /\ f.status /= "skipped"

\* get_next_feature: index of the feature returned (0: None)
get_next_feature(fs, start_from) ==
    LET hits == {i \in 1..Len(fs) : eligible(fs[i], start_from)}
    IN IF hits = {} THEN 0 ELSE CHOOSE i \in hits : \A j \in hits : i <= j

\* mark_feature: the update of the feature found
mark_one(f, res) ==
    IF res.success
    THEN [f EXCEPT !.attempts = @ + 1,
                   !.last_session_id = res.session_id,
                   !.passes = TRUE,
                   !.status = "passed",
                   !.commit_hash = res.commit_hash,
                   !.last_error = None]
    ELSE [f EXCEPT !.attempts = @ + 1,
                   !.last_session_id = res.session_id,
                   !.status = "failed",
                   !.last_error = res.error]

\* mark_feature: the collection after the loop over _features (before the save)
mark_feature(fs, feature_id, res) ==
    LET hits == {i \in 1..Len(fs) : fs[i].id = feature_id}
    IN IF hits = {} THEN fs
       ELSE LET first == CHOOSE i \in hits : \A j \in hits : i <= j
            IN [fs EXCEPT ![first] = mark_one(fs[first], res)]

-----------------------------------------------------------------------------
(* The persisted feature lists and the configurations a run starts from *)

\* the minimal record {id, name, passes, steps}
MinimalItem(id, passes) ==
    [id |-> id, name |-> ToString(id), passes |-> passes, steps |-> <<"step1">>]

\* the feature lists a run starts from: one minimal record per id
\* 1..NumFeatures, pending or passed, in ascending or in descending order of id
\* (the order of the file is whatever its author wrote); the extended records
\* are the ones the run writes itself
InitialData ==
    { d \in [1..NumFeatures ->
                UNION {{MinimalItem(id, FALSE), MinimalItem(id, TRUE)} :
                           id \in 1..NumFeatures}] :
        \/ \A i \in 1..NumFeatures : d[i].id = i
        \/ \A i \in 1..NumFeatures : d[i].id = NumFeatures + 1 - i }

\* the configurations with the default retry options, dry_run off
Configs ==
    [start_from_feature : {{}, {2}},
     stop_after_feature : {{}, {1}},
     max_retries : {DefaultMaxRetries},
     retry_backoff_base : {DefaultBackoffBase},
     retry_backoff_max : {DefaultBackoffMax},
     dry_run : {FALSE}]

\* configurations that set the retry options and dry_run (the fields have no
\* validators: max_retries may be 0); the default cap goes with the other
\* defaults, the small cap with every base and budget
ConfigOptions ==
    { c \in [start_from_feature : {{}},
              stop_after_feature : {{}, {1}},
              max_retries : {0, 1, DefaultMaxRetries},
              retry_backoff_base : {1, DefaultBackoffBase},
              retry_backoff_max : {3, DefaultBackoffMax},
              dry_run : BOOLEAN] :
        c.retry_backoff_max = DefaultBackoffMax =>
            /\ c.retry_backoff_base = DefaultBackoffBase
            /\ c.max_retries = DefaultMaxRetries }

\* what run_feature may return: success with a commit, a retriable failure, a
\* non-retriable failure
RunFeatureResults ==
    { FeatureResult(TRUE, None, SessionId, CommitHash),
      FeatureResult(FALSE, ErrBuildFailed, SessionId, None),
      FeatureResult(FALSE, ErrEacces, SessionId, None) }

NoCall == [op |-> "none"]

NoRound ==
    [a |-> 0, calls |-> 0, all_retriable |-> TRUE, last |-> NoResult, delays |-> <<>>]

\* no progress entry
NoEntry == [feature_id |-> 0, status |-> "none"]

\* ProgressEntry(feature_id = ..., status = ...)
ProgressEntry(feature_id, status) == [feature_id |-> feature_id, status |-> status]

\* the progress log of a process that persisted no outcome: owed is the number
\* of outcomes the process persisted minus the number of entries it appended,
\* last is the entry it appended in this iteration of the loop
NoProgress == [owed |-> 0, last |-> NoEntry]

\* the log of a run in which a call failed or a signal arrived
Dirty == << <<"dirty", 0>> >>

\* log with one more event, unless Dirty
Logged(lg, event) == IF lg = Dirty THEN Dirty ELSE Append(lg, event)

\* history of the first interrupt signal: no signal has arrived
NoSignal == [arrived |-> FALSE, open |-> FALSE, sent |-> FALSE]

\* a hook that returns {}
NoHookOutput == [permissionDecision |-> "none", permissionDecisionReason |-> <<>>]

\* the agent has asked for no tool
NoTool == [tool_name |-> "none", command |-> <<>>, output |-> NoHookOutput]

\* run_feature has not been called
NoRunner ==
    [pc |-> "idle", session_id |-> None, is_error |-> FALSE, error_msg |-> None,
     stall_task |-> "none", stalled |-> FALSE, interrupted |-> FALSE,
     active_client |-> FALSE, active_client_pid |-> FALSE,
     exc |-> [kind |-> "none"], failure |-> "none", ret |-> NoResult,
     signal |-> NoSignal, tool |-> NoTool, interrupts |-> 0, result_seen |-> FALSE]

HistoryInit ==
    /\ execs = 0
    /\ base = 0
    /\ round = NoRound
    /\ committed = <<>>
    /\ resumed = "no"
    /\ streak = 0
    /\ log = <<>>
    /\ signals = 0
    /\ progress = NoProgress

ProcessInit ==
    /\ features = <<>>
    /\ pc = "start"
    /\ save_ret = "none"
    /\ cur = 0
    /\ attempt = 0
    /\ retries_remaining = 0
    /\ last_result = NoResult
    /\ result = NoResult
    /\ consecutive_failures = 0
    /\ shutdown_requested = FALSE

Init ==
    /\ \E d \in InitialData :
          files = [p \in {features_path, tmp_path} |->
                      IF p = features_path THEN Complete(d) ELSE Absent]
    /\ config \in Configs
    /\ ProcessInit
    /\ call = NoCall
    /\ runner = NoRunner
    /\ HistoryInit

-----------------------------------------------------------------------------
(* orchestrator.py: Orchestrator.run *)

\* a caller that changes the collection and returns without
\* calling save_features
SaveBeginUnsaved(fs, ret) ==
    /\ features' = fs
    /\ pc' = ret
    /\ UNCHANGED <<files, save_ret>>
    /\ UNCHANGED <<signals, progress>>

\* save_features up to the open of the temporary file, on behalf of a caller
\* that has just changed the collection to fs
SaveBegin(fs, ret) ==
    /\ features' = fs
    /\ files' = open_w(files, tmp_path)
    /\ pc' = "save_dump"
    /\ save_ret' = ret
    /\ UNCHANGED <<signals, progress>>

\* save_features: json.dump into the temporary file, closed
SaveDump ==
    /\ pc = "save_dump"
    /\ files' = write_close(files, tmp_path, serialize(features))
    /\ pc' = "save_rename"
    /\ UNCHANGED <<features, config, runner, save_ret, cur, attempt, retries_remaining,
                   last_result, result, consecutive_failures, shutdown_requested,
                   call, histvars>>

\* save_features: tmp_path.rename(features_path), and the return
SaveRename ==
    /\ pc = "save_rename"
    /\ files' = rename(files, tmp_path, features_path)
    /\ pc' = save_ret
    /\ save_ret' = "none"
    /\ committed' = features
    /\ progress' = IF save_ret = "append_progress"
                   THEN [progress EXCEPT !.owed = @ + 1] ELSE progress
    /\ UNCHANGED <<features, config, runner, cur, attempt, retries_remaining, last_result,
                   result, consecutive_failures, shutdown_requested, call,
                   execs, base, round, resumed, streak, log>>
    /\ UNCHANGED signals

\* _dry_run: the ids printed as "[dry-run] Would run", in the order printed
dry_run(fs, start_from_feature) ==
    LET start_from == IF start_from_feature = {} \/ start_from_feature = {0} THEN 1
                      ELSE CHOOSE n \in start_from_feature : TRUE
        Printed(f) == ~f.passes /\ f.id >= start_from
        printed == SelectSeq(fs, Printed)
    IN [k \in 1..Len(printed) |-> printed[k].id]

\* run(): features = self.state.load_features(); json.load raises on a file that
\* is no complete JSON text; with dry_run the list is printed and run() returns
LoadFeatures ==
    /\ pc = "start"
    /\ IF files[features_path].kind = "complete"
       THEN /\ features' = load_features(files[features_path])
            /\ pc' = IF config.dry_run THEN "done" ELSE "loop"
            /\ call' = IF config.dry_run
                       THEN [op |-> "dry_run",
                             listed |-> dry_run(features', config.start_from_feature),
                             files |-> files]
                       ELSE call
       ELSE /\ features' = features
            /\ pc' = "crashed"
            /\ call' = call
    /\ committed' = IF committed = <<>> THEN features' ELSE committed
    /\ UNCHANGED <<files, config, runner, save_ret, cur, attempt, retries_remaining,
                   last_result, result, consecutive_failures, shutdown_requested,
                   execs, base, round, resumed, streak, log>>
    /\ UNCHANGED <<signals, progress>>

\* a stop-after check that lets one more feature through
past_stop_after_next(f, stop_after) == \E s \in stop_after : f.id > s + 1

\* run(): stop_after_feature is not None and feature.id > stop_after_feature
past_stop_after(f, stop_after) == \E s \in stop_after : f.id > s

\* a retry budget check that lets one more round through
retry_budget_exhausted_late(f, max_retries) == f.attempts > max_retries

\* run(): feature.attempts >= self.config.max_retries
retry_budget_exhausted(f, max_retries) == f.attempts >= max_retries

\* run(): the head of the while loop, up to the retry budget check
SelectFeature ==
    /\ pc = "loop"
    /\ LET i == get_next_feature(features, config.start_from_feature)
       IN IF shutdown_requested \/ i = 0
             \/ past_stop_after(features[i], config.stop_after_feature)
          THEN /\ pc' = "done"
               /\ cur' = IF shutdown_requested THEN cur ELSE i
          ELSE /\ cur' = i
               /\ pc' = IF retry_budget_exhausted(features[i], config.max_retries)
                        THEN "ask_retry_exhausted" ELSE "execute"
    /\ IF cur' /= cur /\ cur' /= 0
       THEN execs' = 0 /\ base' = features[cur'].attempts
       ELSE UNCHANGED <<execs, base>>
    /\ resumed' = IF resumed = "pending" THEN "first" ELSE "no"
    /\ progress' = [progress EXCEPT !.last = NoEntry]
    /\ UNCHANGED <<files, features, config, runner, save_ret, attempt, retries_remaining,
                   last_result, result, consecutive_failures, shutdown_requested,
                   call, round, committed, streak, log>>
    /\ UNCHANGED signals

\* a retry decision that also makes the feature pending again
reset_attempts_and_status(f) == [f EXCEPT !.attempts = 0, !.status = "pending"]

\* run(): feature.attempts = 0
reset_attempts(f) == [f EXCEPT !.attempts = 0]

\* run(): the operator's answer to _ask_retry_exhausted
AnswerRetryExhausted(action) ==
    /\ pc = "ask_retry_exhausted"
    /\ CASE action = "skip" ->
              /\ SaveBegin([features EXCEPT ![cur].status = "skipped"], "loop")
              /\ UNCHANGED <<execs, base>>
         [] action = "retry" ->
              /\ SaveBegin([features EXCEPT ![cur] = reset_attempts(@)], "execute")
              /\ execs' = 0
              /\ base' = 0
         [] OTHER ->
              /\ pc' = "done"
              /\ UNCHANGED <<files, features, save_ret, execs, base>>
    /\ resumed' = "no"
    /\ UNCHANGED <<config, runner, cur, attempt, retries_remaining, last_result, result,
                   consecutive_failures, shutdown_requested, call, round,
                   committed, streak, log>>
    /\ UNCHANGED <<signals, progress>>

\* _execute_with_retry: retries_remaining
initial_retries_remaining(max_retries, attempts) ==
    IF max_retries - attempts > 0 THEN max_retries - attempts ELSE 0

\* a loop over range(retries_remaining), one iteration short
range_stop_short(remaining) == remaining

\* _execute_with_retry: the number of iterations of range(retries_remaining + 1)
range_stop(remaining) == remaining + 1

\* a delay without the cap
backoff_uncapped(retry_backoff_base, retry_backoff_max, n) == retry_backoff_base ^ n

\* _execute_with_retry: backoff = min(retry_backoff_base ** attempt, retry_backoff_max)
backoff(retry_backoff_base, retry_backoff_max, n) ==
    IF retry_backoff_base ^ n <= retry_backoff_max
    THEN retry_backoff_base ^ n ELSE retry_backoff_max

\* the call of self.runner.run_feature(feature)
CallRunFeature ==
    /\ pc' = "running"
    /\ execs' = IF execs < ExecCap THEN execs + 1 ELSE execs
    /\ round' = [round EXCEPT !.calls = @ + 1]
    /\ UNCHANGED <<signals, progress>>

\* _execute_with_retry returns res, its locals die with its frame, and run()
\* calls self.state.mark_feature(feature.id, result), which changes the feature
\* and enters save_features
ReturnAndMark(res) ==
    /\ result' = res
    /\ attempt' = 0
    /\ retries_remaining' = 0
    /\ last_result' = NoResult
    /\ SaveBegin(mark_feature(features, features[cur].id, res), "append_progress")

\* _execute_with_retry: entry and the first iteration of the for loop, up to the
\* call of run_feature (range(retries_remaining + 1) is never empty)
ExecuteWithRetry ==
    /\ pc = "execute"
    /\ last_result' = NoResult
    /\ retries_remaining' =
           initial_retries_remaining(config.max_retries, features[cur].attempts)
    /\ attempt' = 0
    /\ pc' = "running"
    /\ execs' = IF execs < ExecCap THEN execs + 1 ELSE execs
    /\ round' = [NoRound EXCEPT !.a = features[cur].attempts, !.calls = 1]
    /\ resumed' = "no"
    /\ log' = Logged(log, <<"run", features[cur].id>>)
    /\ UNCHANGED <<files, features, config, runner, save_ret, cur, result,
                   consecutive_failures, shutdown_requested, call, base, committed,
                   streak>>
    /\ UNCHANGED <<signals, progress>>

\* _execute_with_retry: the backoff sleep is over
BackoffDone ==
    /\ pc = "backoff"
    /\ CallRunFeature
    /\ UNCHANGED <<files, features, config, runner, save_ret, cur, attempt, retries_remaining,
                   last_result, result, consecutive_failures, shutdown_requested,
                   call, base, committed, resumed, streak, log>>

\* _execute_with_retry: run_feature returns res; the rest of the iteration and
\* the head of the next one
RunFeatureReturns(res) ==
    /\ pc = "running"
    /\ round' = [round EXCEPT !.last = res,
                              !.all_retriable = @ /\ ~res.success
                                                  /\ is_retriable_error(res.error),
                              !.delays =
                                  IF ~res.success /\ is_retriable_error(res.error)
                                     /\ attempt + 1 < range_stop(retries_remaining)
                                  THEN Append(@, backoff(config.retry_backoff_base,
                                                         config.retry_backoff_max,
                                                         attempt + 1))
                                  ELSE @]
    /\ IF res.success \/ ~is_retriable_error(res.error)
       THEN \* return result; or last_result = result, break, return last_result
            ReturnAndMark(res)
       ELSE IF attempt + 1 >= range_stop(retries_remaining)
       THEN \* the for loop is over: return last_result
            ReturnAndMark(res)
       ELSE \* last_result = result; next attempt: attempt > 0, so
            \* await asyncio.sleep(backoff)
            /\ last_result' = res
            /\ attempt' = attempt + 1
            /\ pc' = "backoff"
            /\ UNCHANGED <<files, features, save_ret, result, retries_remaining>>
    /\ log' = IF res.success THEN log ELSE Dirty
    /\ UNCHANGED <<config, runner, cur, consecutive_failures, shutdown_requested, call,
                   execs, base, committed, resumed, streak>>
    /\ UNCHANGED <<signals, progress>>

\* run_feature raises instead of returning: run() catches asyncio.CancelledError
\* and ends after its cleanup; any other exception leaves run() through the
\* finally block and ends the process
RunFeatureRaises(kind) ==
    /\ pc = "running"
    /\ pc' = IF kind = "CancelledError" THEN "done" ELSE "exited"
    /\ attempt' = 0              \* the frame of _execute_with_retry is gone
    /\ retries_remaining' = 0
    /\ last_result' = NoResult
    /\ round' = NoRound
    /\ execs' = 0
    /\ base' = 0
    /\ log' = Dirty
    /\ UNCHANGED <<files, features, config, runner, save_ret, cur, result,
                   consecutive_failures, shutdown_requested, call, committed,
                   resumed, streak>>
    /\ UNCHANGED <<signals, progress>>

\* a counter that a success does not reset
next_consecutive_failures_sticky(n, success) == IF success THEN n ELSE n + 1

\* run(): consecutive_failures = 0 on success, consecutive_failures += 1 on failure
next_consecutive_failures(n, success) == IF success THEN 0 ELSE n + 1

\* entries that all say passed
progress_status_passed(success) == "passed"

\* run(): status = FeatureStatus.PASSED if result.success else FeatureStatus.FAILED
progress_status(success) == IF success THEN "passed" ELSE "failed"

\* run(): append_progress and the branch on result.success
AppendProgress ==
    /\ pc = "append_progress"
    /\ consecutive_failures' =
           next_consecutive_failures(consecutive_failures, result.success)
    /\ pc' = IF result.success THEN "pause"
             ELSE IF consecutive_failures' >= max_consecutive_failures
             THEN "ask_consecutive_failures" ELSE "loop"
    /\ result' = NoResult   \* not read again before the next round assigns it
    /\ round' = NoRound
    /\ streak' = IF result.success THEN 0 ELSE streak + 1
    /\ log' = Logged(log, <<"progress", features[cur].id>>)
    /\ progress' = [progress EXCEPT
                        !.owed = @ - 1,
                        !.last = ProgressEntry(features[cur].id,
                                               progress_status(result.success))]
    /\ UNCHANGED <<files, features, config, runner, save_ret, cur, attempt, retries_remaining,
                   last_result, shutdown_requested, call, execs, base, committed,
                   resumed>>
    /\ UNCHANGED signals

\* run(): await asyncio.sleep(2) is over
PauseDone ==
    /\ pc = "pause"
    /\ pc' = "loop"
    /\ UNCHANGED <<files, features, config, runner, save_ret, cur, attempt, retries_remaining,
                   last_result, result, consecutive_failures, shutdown_requested,
                   call, histvars>>

\* run(): the operator's answer to _ask_consecutive_failures
AnswerConsecutiveFailures(action) ==
    /\ pc = "ask_consecutive_failures"
    /\ IF action = "continue"
       THEN /\ consecutive_failures' = 0
            /\ streak' = 0
            /\ pc' = "loop"
       ELSE /\ pc' = "done"
            /\ UNCHANGED <<consecutive_failures, streak>>
    /\ UNCHANGED <<files, features, config, runner, save_ret, cur, attempt, retries_remaining,
                   last_result, result, shutdown_requested, call, execs, base, round,
                   committed, resumed, log>>
    /\ UNCHANGED <<signals, progress>>

\* the positions at which run() is suspended in an await
SuspensionPoints ==
    {"ask_retry_exhausted", "backoff", "running", "pause", "ask_consecutive_failures"}

\* a handler that latches the flag at every signal and never exits
ShutdownSignalLatchOnly ==
    /\ pc \in SuspensionPoints
    /\ shutdown_requested' = TRUE
    /\ signals' = IF signals < 2 THEN signals + 1 ELSE signals
    /\ log' = Dirty
    /\ UNCHANGED progress
    /\ UNCHANGED <<files, features, config, runner, pc, save_ret, cur, attempt,
                   retries_remaining, last_result, result, consecutive_failures,
                   call, execs, base, round, committed, resumed, streak>>

\* _handle_shutdown_signal: SIGINT or SIGTERM, delivered while the loop is suspended
ShutdownSignal ==
    /\ pc \in SuspensionPoints
    /\ IF shutdown_requested
       THEN /\ pc' = "exited"
            /\ UNCHANGED shutdown_requested
       ELSE /\ shutdown_requested' = TRUE
            /\ UNCHANGED pc
    /\ signals' = IF signals < 2 THEN signals + 1 ELSE signals
    /\ log' = Dirty
    /\ UNCHANGED progress
    /\ UNCHANGED <<files, features, config, runner, save_ret, cur, attempt, retries_remaining,
                   last_result, result, consecutive_failures, call, execs, base,
                   round, committed, resumed, streak>>

\* the positions at which the process is alive
Alive ==
    {"start", "loop", "ask_retry_exhausted", "execute", "backoff", "running",
     "save_dump", "save_rename", "append_progress", "pause",
     "ask_consecutive_failures"}

\* the process is killed: memory is lost, the files stay as they are
Kill ==
    /\ pc \in Alive
    /\ pc' = "dead"
    /\ features' = <<>>
    /\ save_ret' = "none"
    /\ cur' = 0
    /\ attempt' = 0
    /\ retries_remaining' = 0
    /\ last_result' = NoResult
    /\ result' = NoResult
    /\ consecutive_failures' = 0
    /\ shutdown_requested' = FALSE
    /\ round' = NoRound
    /\ execs' = 0
    /\ base' = 0
    /\ resumed' = "no"
    /\ streak' = 0
    /\ log' = Dirty
    /\ signals' = 0
    /\ progress' = NoProgress
    /\ UNCHANGED <<files, config, runner, call, committed>>

\* the orchestrator is started again on the same project
Restart ==
    /\ pc = "dead"
    /\ pc' = "start"
    /\ resumed' = "pending"
    /\ UNCHANGED <<files, features, config, runner, save_ret, cur, attempt, retries_remaining,
                   last_result, result, consecutive_failures, shutdown_requested,
                   call, execs, base, round, committed, streak, log>>
    /\ UNCHANGED <<signals, progress>>

Next ==
    \/ LoadFeatures
    \/ SelectFeature
    \/ \E action \in {"skip", "retry", "abort"} : AnswerRetryExhausted(action)
    \/ ExecuteWithRetry
    \/ BackoffDone
    \/ \E res \in RunFeatureResults : RunFeatureReturns(res)
    \/ \E kind \in {"CancelledError", "Exception"} : RunFeatureRaises(kind)
    \/ SaveDump
    \/ SaveRename
    \/ AppendProgress
    \/ PauseDone
    \/ \E action \in {"continue", "abort"} : AnswerConsecutiveFailures(action)
    \/ ShutdownSignal
    \/ Kill
    \/ Restart

Spec == Init /\ [][Next]_vars

\* the steps run() takes by itself: no operator, agent or signal is needed
ProgramStep ==
    \/ LoadFeatures
    \/ SelectFeature
    \/ ExecuteWithRetry
    \/ BackoffDone
    \/ SaveDump
    \/ SaveRename
    \/ AppendProgress
    \/ PauseDone

\* the event loop goes on with run() whenever run() can take a step by itself
FairSpec == Spec /\ WF_vars(ProgramStep)

\* the agent session of the running call ends: run_feature returns or raises
SessionEnds ==
    \/ \E res \in RunFeatureResults : RunFeatureReturns(res)
    \/ \E kind \in {"CancelledError", "Exception"} : RunFeatureRaises(kind)

\* the operator answers the prompt the loop waits at
PromptAnswered ==
    \/ \E action \in {"skip", "retry", "abort"} : AnswerRetryExhausted(action)
    \/ \E action \in {"continue", "abort"} : AnswerConsecutiveFailures(action)

\* run() with sessions that end and an operator who answers
LiveSpec ==
    Spec /\ WF_vars(ProgramStep) /\ WF_vars(SessionEnds) /\ WF_vars(PromptAnswered)

\* a run under any of the retry options, with or without dry_run, on a list in
\* ascending order of id
InitOptions ==
    /\ \E d \in InitialData :
          /\ \A i \in 1..NumFeatures : d[i].id = i
          /\ files = [p \in {features_path, tmp_path} |->
                         IF p = features_path THEN Complete(d) ELSE Absent]
    /\ config \in ConfigOptions
    /\ ProcessInit
    /\ call = NoCall
    /\ runner = NoRunner
    /\ HistoryInit

SpecOptions == InitOptions /\ [][Next]_vars

-----------------------------------------------------------------------------
(* The store's interface called directly, as the tests and `orchestrate       *)
(* status` do: load_features, then get_next_feature and mark_feature          *)

\* well-formed records for feature id: the minimal shape and the extended shape,
\* whose passes and status are separate fields of the file
StoreItems(id) ==
    {MinimalItem(id, p) : p \in BOOLEAN}
    \cup { [id |-> id, name |-> ToString(id), passes |-> p, steps |-> <<"step1">>,
            status |-> st, attempts |-> 1, last_error |-> ErrBuildFailed] :
              p \in BOOLEAN, st \in {"pending", "passed", "failed", "skipped"} }

StoreData ==
    { d \in [1..NumFeatures -> UNION {StoreItems(id) : id \in 1..NumFeatures}] :
        \/ \A i \in 1..NumFeatures : d[i].id = i
        \/ \A i \in 1..NumFeatures : d[i].id = NumFeatures + 1 - i }

\* results handed to mark_feature: those of run_feature, and a failure of a
\* session that never reported its id
StoreResults ==
    RunFeatureResults \cup {FeatureResult(FALSE, ErrBuildFailed, None, None)}

\* files that are no well-formed feature list: a truncated JSON text, a list
\* with a record that has no id, and a list with a record of id and name only
MalformedFiles ==
    { Partial,
      Complete(<<[name |-> ToString(1), passes |-> FALSE, steps |-> <<"step1">>]>>),
      Complete(<<[id |-> 1, name |-> ToString(1)]>>) }

\* load_features: the exception raised on the file ("None": none): json.load on
\* a text that is no JSON, item["id"] and item["name"] on a record without them,
\* FeatureStatus(item["status"]) on an unknown status
load_raises(file) ==
    IF file.kind = "absent" THEN "FileNotFoundError"
    ELSE IF file.kind /= "complete" THEN "JSONDecodeError"
    ELSE IF \E i \in 1..Len(file.data) :
                /\ "status" \in DOMAIN file.data[i]
                /\ file.data[i].status \notin FeatureStatus
    THEN "ValueError"
    ELSE IF \E i \in 1..Len(file.data) : {"id", "name"} \ DOMAIN file.data[i] /= {}
    THEN "KeyError"
    ELSE "None"

InitStore ==
    /\ \E file \in {Complete(d) : d \in StoreData} \cup MalformedFiles :
          files = [p \in {features_path, tmp_path} |->
                      IF p = features_path THEN file ELSE Absent]
    /\ config = [start_from_feature |-> {}, stop_after_feature |-> {},
                 max_retries |-> DefaultMaxRetries]
    /\ ProcessInit
    /\ call = NoCall
    /\ runner = NoRunner
    /\ HistoryInit

\* StateManager.load_features()
StoreLoad ==
    /\ call.op = "none"
    /\ IF load_raises(files[features_path]) = "None"
       THEN /\ features' = load_features(files[features_path])
            /\ call' = [op |-> "load"]
       ELSE /\ call' = [op |-> "load_raised",
                        raised |-> load_raises(files[features_path])]
            /\ UNCHANGED features
    /\ UNCHANGED <<files, config, runner, loopvars, histvars>>

\* StateManager.get_next_feature(start_from)
StoreGetNext(start_from) ==
    /\ call.op \in {"load", "mark"}
    /\ call' = [op |-> "get_next", start_from |-> start_from,
                ret |-> get_next_feature(features, start_from)]
    /\ UNCHANGED <<files, features, config, runner, loopvars, histvars>>

\* StateManager.mark_feature(feature_id, result), its save_features included
StoreMark(feature_id, res) ==
    /\ call.op = "load"
    /\ features' = mark_feature(features, feature_id, res)
    /\ files' = rename(write_close(open_w(files, tmp_path), tmp_path,
                                   serialize(features')),
                       tmp_path, features_path)
    /\ call' = [op |-> "mark", id |-> feature_id, res |-> res, pre |-> features]
    /\ UNCHANGED <<config, runner, loopvars, histvars>>

\* StateManager.save_features(), called right after load_features
StoreSave ==
    /\ call.op = "load"
    /\ files' = rename(write_close(open_w(files, tmp_path), tmp_path,
                                   serialize(features)),
                       tmp_path, features_path)
    /\ call' = [op |-> "save", pre_file |-> files[features_path]]
    /\ UNCHANGED <<features, config, runner, loopvars, histvars>>

NextStore ==
    \/ StoreLoad
    \/ StoreSave
    \/ \E sf \in {{}} \cup {{id} : id \in 1..NumFeatures} : StoreGetNext(sf)
    \/ \E i \in 1..Len(features), res \in StoreResults : StoreMark(features[i].id, res)

SpecStore == InitStore /\ [][NextStore]_vars

-----------------------------------------------------------------------------
(* hooks.py: the command safety policy.  A command is a sequence of            *)
(* one-character strings; a reason is a string, "None" standing for None       *)

\* BLOCKED_SUBSTRINGS, in the order of the list
BLOCKED_SUBSTRINGS ==
    <<
      <<<<"m", "k", "f", "s", ".">>,
         "filesystem format">>,
      <<<<":", "(", ")", "{", ":", "|", ":", "&", "}", ";", ":">>,
         "fork bomb">>,
      <<<<"d", "d", " ", "i", "f", "=", "/", "d", "e", "v", "/">>,
         "raw disk write">>,
      <<<<">", " ", "/", "d", "e", "v", "/", "s", "d">>,
         "raw device write">>,
      <<<<"g", "i", "t", " ", "p", "u", "s", "h">>,
         "push to remote (use manually outside orchestrator)">>,
      <<<<"g", "i", "t", " ", "r", "e", "s", "e", "t", " ", "-", "-", "h", "a", "r", "d">>,
         "destructive history reset">>,
      <<<<"g", "i", "t", " ", "c", "l", "e", "a", "n", " ", "-", "f">>,
         "force-delete untracked files">>,
      <<<<"g", "i", "t", " ", "c", "h", "e", "c", "k", "o", "u", "t", " ", ".">>,
         "discard all working tree changes">>,
      <<<<"g", "i", "t", " ", "r", "e", "s", "t", "o", "r", "e", " ", ".">>,
         "discard all working tree changes">>,
      <<<<"g", "i", "t", " ", "b", "r", "a", "n", "c", "h", " ", "-", "D">>,
         "force-delete branch">>,
      <<<<"g", "i", "t", " ", "r", "e", "b", "a", "s", "e">>,
         "rebase (risky in automated context)">>,
      <<<<"g", "i", "t", " ", "s", "t", "a", "s", "h", " ", "d", "r", "o", "p">>,
         "drop stash entry">>,
      <<<<"g", "i", "t", " ", "s", "t", "a", "s", "h", " ", "c", "l", "e", "a", "r">>,
         "drop all stash entries">>,
      <<<<"n", "p", "m", " ", "p", "u", "b", "l", "i", "s", "h">>,
         "publish package to npm">>,
      <<<<"n", "p", "x", " ", "n", "p", "m", " ", "p", "u", "b", "l", "i", "s", "h">>,
         "publish package to npm">>,
      <<<<"y", "a", "r", "n", " ", "p", "u", "b", "l", "i", "s", "h">>,
         "publish package to yarn">>,
      <<<<"p", "n", "p", "m", " ", "p", "u", "b", "l", "i", "s", "h">>,
         "publish package to pnpm">>,
      <<<<"t", "w", "i", "n", "e", " ", "u", "p", "l", "o", "a", "d">>,
         "publish package to PyPI">>,
      <<<<"c", "a", "r", "g", "o", " ", "p", "u", "b", "l", "i", "s", "h">>,
         "publish crate">>,
      <<<<"g", "e", "m", " ", "p", "u", "s", "h">>,
         "publish gem">>,
      <<<<"s", "h", "u", "t", "d", "o", "w", "n">>,
         "system shutdown">>,
      <<<<"r", "e", "b", "o", "o", "t">>,
         "system reboot">>,
      <<<<"s", "y", "s", "t", "e", "m", "c", "t", "l", " ", "s", "t", "o", "p">>,
         "stop system service">>,
      <<<<"s", "y", "s", "t", "e", "m", "c", "t", "l", " ", "d", "i", "s", "a", "b", "l", "e">>,
         "disable system service">>,
      <<<<"l", "a", "u", "n", "c", "h", "c", "t", "l", " ", "u", "n", "l", "o", "a", "d">>,
         "unload macOS service">>,
      <<<<"-", "-", "p", "a", "s", "s", "w", "o", "r", "d">>,
         "password in command line">>,
      <<<<"-", "-", "t", "o", "k", "e", "n">>,
         "token in command line">> >>

\* [0-9]
Digits == {"0", "1", "2", "3", "4", "5", "6", "7", "8", "9"}

\* [0-7]
OctalDigits == {"0", "1", "2", "3", "4", "5", "6", "7"}

\* [a-zA-Z]
Letters == {UpperCase[k] : k \in 1..26} \cup {LowerCase[k] : k \in 1..26}

\* \w
IsWordChar(c) == c \in Letters \cup Digits \cup {"_"}

\* \s
IsSpace(c) == c \in {" ", "\t", "\n", "\r"}

\* \b at the gap before position i of text
Boundary(text, i) ==
    (i > 1 /\ IsWordChar(text[i - 1])) /= (i <= Len(text) /\ IsWordChar(text[i]))

\* the literal w at position i of text
At(text, i, w) ==
    /\ i >= 1
    /\ i + Len(w) - 1 <= Len(text)
    /\ \A j \in 1..Len(w) : text[i + j - 1] = w[j]

\* \s+ matches text[i..k-1]
Spaces(text, i, k) == k > i /\ k <= Len(text) + 1 /\ \A j \in i..(k - 1) : IsSpace(text[j])

\* \s* matches text[i..k-1]
OptSpaces(text, i, k) == k >= i /\ k <= Len(text) + 1 /\ \A j \in i..(k - 1) : IsSpace(text[j])

\* .* matches text[i..k-1]: any characters but a newline
AnyChars(text, i, k) == k >= i /\ k <= Len(text) + 1 /\ \A j \in i..(k - 1) : text[j] /= "\n"

\* the positions 1..Len(text)+1
Gaps(text) == 1..(Len(text) + 1)

\* (sh|bash|zsh|python|node)
Interpreters ==
    { <<"s", "h">>, <<"b", "a", "s", "h">>, <<"z", "s", "h">>, <<"p", "y", "t", "h", "o", "n">>, <<"n", "o", "d", "e">> }

\* \b<tool>\b.*\|\s*(sh|bash|zsh|python|node)\b
pipes_to_interpreter(text, tool) ==
    \E i \in Gaps(text) :
        /\ Boundary(text, i) /\ At(text, i, tool) /\ Boundary(text, i + Len(tool))
        /\ \E p \in Gaps(text) :
              /\ AnyChars(text, i + Len(tool), p)
              /\ At(text, p, <<"|">>)
              /\ \E q \in Gaps(text) :
                    /\ OptSpaces(text, p + 1, q)
                    /\ \E w \in Interpreters :
                           At(text, q, w) /\ Boundary(text, q + Len(w))

\* \beval\b.*\$\(\s*(curl|wget)\b
evals_download(text) ==
    \E i \in Gaps(text) :
        /\ Boundary(text, i) /\ At(text, i, <<"e", "v", "a", "l">>) /\ Boundary(text, i + 4)
        /\ \E p \in Gaps(text) :
              /\ AnyChars(text, i + 4, p)
              /\ At(text, p, <<"$", "(">>)
              /\ \E q \in Gaps(text) :
                    /\ OptSpaces(text, p + 2, q)
                    /\ \E w \in {<<"c", "u", "r", "l">>, <<"w", "g", "e", "t">>} :
                           At(text, q, w) /\ Boundary(text, q + Len(w))

\* \b<w>\b
has_word(text, w) ==
    \E i \in Gaps(text) :
        Boundary(text, i) /\ At(text, i, w) /\ Boundary(text, i + Len(w))

\* \b<first>\s+<second>, with \b after it when closed
word_then(text, first, second, closed) ==
    \E i \in Gaps(text) :
        /\ Boundary(text, i) /\ At(text, i, first)
        /\ \E k \in Gaps(text) :
              /\ Spaces(text, i + Len(first), k)
              /\ At(text, k, second)
              /\ closed => Boundary(text, k + Len(second))

\* \bchmod\s+([0-7]*7[0-7]{0,2}|a\+w|o\+w|\+w)
chmod_world_writable(text) ==
    \E i \in Gaps(text) :
        /\ Boundary(text, i) /\ At(text, i, <<"c", "h", "m", "o", "d">>)
        /\ \E k \in Gaps(text) :
              /\ Spaces(text, i + 5, k)
              /\ \/ \E m \in k..Len(text), n \in 0..2 :
                       /\ \A j \in k..(m - 1) : text[j] \in OctalDigits
                       /\ text[m] = "7"
                       /\ m + n <= Len(text)
                       /\ \A j \in (m + 1)..(m + n) : text[j] \in OctalDigits
                 \/ At(text, k, <<"a", "+", "w">>)
                 \/ At(text, k, <<"o", "+", "w">>)
                 \/ At(text, k, <<"+", "w">>)

\* \bdocker\s+(rm|rmi|system\s+prune)
docker_destructive(text) ==
    \/ word_then(text, <<"d", "o", "c", "k", "e", "r">>, <<"r", "m">>, FALSE)
    \/ word_then(text, <<"d", "o", "c", "k", "e", "r">>, <<"r", "m", "i">>, FALSE)
    \/ \E i \in Gaps(text) :
           /\ Boundary(text, i) /\ At(text, i, <<"d", "o", "c", "k", "e", "r">>)
           /\ \E k \in Gaps(text) :
                 /\ Spaces(text, i + 6, k)
                 /\ At(text, k, <<"s", "y", "s", "t", "e", "m">>)
                 /\ \E p \in Gaps(text) :
                       /\ Spaces(text, k + 6, p)
                       /\ At(text, p, <<"p", "r", "u", "n", "e">>)

\* \b(DROP\s+(TABLE|DATABASE|SCHEMA)|TRUNCATE\s+TABLE)\b with re.IGNORECASE
destructive_sql(text) ==
    LET t == lower(text)
    IN \/ word_then(t, <<"d", "r", "o", "p">>, <<"t", "a", "b", "l", "e">>, TRUE)
       \/ word_then(t, <<"d", "r", "o", "p">>, <<"d", "a", "t", "a", "b", "a", "s", "e">>, TRUE)
       \/ word_then(t, <<"d", "r", "o", "p">>, <<"s", "c", "h", "e", "m", "a">>, TRUE)
       \/ word_then(t, <<"t", "r", "u", "n", "c", "a", "t", "e">>, <<"t", "a", "b", "l", "e">>, TRUE)

\* BLOCKED_PATTERNS, in the order of the list: whether the regex finds a match,
\* and the reason
BLOCKED_PATTERNS(text) ==
    << <<pipes_to_interpreter(text, <<"c", "u", "r", "l">>), "piping curl output to interpreter">>,
       <<pipes_to_interpreter(text, <<"w", "g", "e", "t">>), "piping wget output to interpreter">>,
       <<evals_download(text), "eval of downloaded content">>,
       <<has_word(text, <<"s", "u", "d", "o">>), "sudo (not needed for project builds)">>,
       <<chmod_world_writable(text), "chmod world-writable">>,
       <<docker_destructive(text), "docker destructive operation">>,
       <<word_then(text, <<"k", "u", "b", "e", "c", "t", "l">>, <<"d", "e", "l", "e", "t", "e">>, TRUE), "kubectl delete">>,
       <<destructive_sql(text), "destructive SQL operation">> >>

\* _RM_RECURSIVE_RE.search: \brm\s+.*-[a-zA-Z]*[rR]
RM_RECURSIVE_RE(text) ==
    \E i \in Gaps(text) :
        /\ Boundary(text, i) /\ At(text, i, <<"r", "m">>)
        /\ \E k \in Gaps(text) :
              /\ Spaces(text, i + 2, k)
              /\ \E d \in k..Len(text) :
                    /\ AnyChars(text, k, d)
                    /\ text[d] = "-"
                    /\ \E e \in (d + 1)..Len(text) :
                          /\ \A j \in (d + 1)..(e - 1) : text[j] \in Letters
                          /\ text[e] \in {"r", "R"}

\* RM_RECURSIVE_ALLOWLIST
RM_RECURSIVE_ALLOWLIST ==
    {
      <<"n", "o", "d", "e", "_", "m", "o", "d", "u", "l", "e", "s">>,
      <<"d", "i", "s", "t">>,
      <<"b", "u", "i", "l", "d">>,
      <<".", "c", "a", "c", "h", "e">>,
      <<".", "a", "s", "t", "r", "o">>,
      <<".", "n", "e", "x", "t">>,
      <<".", "n", "u", "x", "t">>,
      <<".", "t", "u", "r", "b", "o">>,
      <<".", "p", "a", "r", "c", "e", "l", "-", "c", "a", "c", "h", "e">>,
      <<".", "o", "u", "t", "p", "u", "t">>,
      <<".", "v", "e", "r", "c", "e", "l">>,
      <<"c", "o", "v", "e", "r", "a", "g", "e">>,
      <<".", "n", "y", "c", "_", "o", "u", "t", "p", "u", "t">>,
      <<"_", "_", "p", "y", "c", "a", "c", "h", "e", "_", "_">>,
      <<".", "p", "y", "t", "e", "s", "t", "_", "c", "a", "c", "h", "e">>,
      <<".", "m", "y", "p", "y", "_", "c", "a", "c", "h", "e">>,
      <<".", "r", "u", "f", "f", "_", "c", "a", "c", "h", "e">>,
      <<"*", ".", "e", "g", "g", "-", "i", "n", "f", "o">>,
      <<"t", "m", "p">>,
      <<".", "t", "m", "p">> }

RECURSIVE split_from(_, _)
\* str.split(): the tokens of text from position i on
split_from(text, i) ==
    IF i > Len(text) THEN <<>>
    ELSE IF IsSpace(text[i]) THEN split_from(text, i + 1)
    ELSE LET stops == {k \in i..Len(text) : IsSpace(text[k])}
             stop == IF stops = {} THEN Len(text) + 1
                     ELSE CHOOSE k \in stops : \A l \in stops : k <= l
         IN <<SubSeq(text, i, stop - 1)>> \o split_from(text, stop)

\* command.split()
split(text) == split_from(text, 1)

\* tokens.index("rm"): the first index, 0 for ValueError
index_of_rm(tokens) ==
    LET hits == {k \in 1..Len(tokens) : tokens[k] = <<"r", "m">>}
    IN IF hits = {} THEN 0 ELSE CHOOSE k \in hits : \A l \in hits : k <= l

RECURSIVE strip_dot_slash(_)
\* while cleaned.startswith("./"): cleaned = cleaned[2:]
strip_dot_slash(token) ==
    IF At(token, 1, <<".", "/">>) THEN strip_dot_slash(SubSeq(token, 3, Len(token)))
    ELSE token

RECURSIVE rstrip_slash(_)
\* cleaned.rstrip("/")
rstrip_slash(token) ==
    IF Len(token) > 0 /\ token[Len(token)] = "/"
    THEN rstrip_slash(SubSeq(token, 1, Len(token) - 1))
    ELSE token

\* the normalisation of one token
cleaned(token) == rstrip_slash(strip_dot_slash(token))

\* target.rsplit("/", 1)[-1]
basename(target) ==
    LET slashes == {k \in 1..Len(target) : target[k] = "/"}
    IN IF slashes = {} THEN target
       ELSE SubSeq(target, (CHOOSE k \in slashes : \A l \in slashes : k >= l) + 1,
                   Len(target))

\* _check_rm_recursive
check_rm_recursive(command) ==
    IF ~RM_RECURSIVE_RE(command) THEN "None"
    ELSE LET tokens == split(command)
             rm_idx == index_of_rm(tokens)
             args == {k \in (rm_idx + 1)..Len(tokens) : tokens[k][1] /= "-"}
         IN IF rm_idx = 0 THEN "recursive rm (could not parse targets)"
            ELSE IF \E k \in args :
                        cleaned(tokens[k]) \in {<<>>, <<".">>, <<".", ".">>}
            THEN "recursive rm targeting root or current directory"
            ELSE IF args = {} THEN "recursive rm with no identifiable target"
            ELSE IF \E k \in args :
                        basename(cleaned(tokens[k])) \notin RM_RECURSIVE_ALLOWLIST
            THEN "recursive rm -- target not in allowlist"
            ELSE "None"

\* the reason of the first entry of BLOCKED_SUBSTRINGS found in the command
blocked_substring(command) ==
    LET hits == {k \in 1..Len(BLOCKED_SUBSTRINGS) :
                    contains(command, BLOCKED_SUBSTRINGS[k][1])}
    IN IF hits = {} THEN "None"
       ELSE BLOCKED_SUBSTRINGS[CHOOSE k \in hits : \A l \in hits : k <= l][2]

\* the reason of the first entry of BLOCKED_PATTERNS that matches
blocked_pattern(command) ==
    LET patterns == BLOCKED_PATTERNS(command)
        hits == {k \in 1..Len(patterns) : patterns[k][1]}
    IN IF hits = {} THEN "None"
       ELSE patterns[CHOOSE k \in hits : \A l \in hits : k <= l][2]

\* check_command_safety: the reason, "None" for a safe command
check_command_safety(command) ==
    IF blocked_substring(command) /= "None" THEN blocked_substring(command)
    ELSE IF blocked_pattern(command) /= "None" THEN blocked_pattern(command)
    ELSE check_rm_recursive(command)

\* the tokens of the commands evaluated
TokRm == <<"r", "m">>

TokBinRm == <<"/", "b", "i", "n", "/", "r", "m">>

TokRf == <<"-", "r", "f">>

TokF == <<"-", "f">>

TokSrc == <<"s", "r", "c">>

TokTmp == <<"t", "m", "p">>

TokDist == <<".", "/", "d", "i", "s", "t", "/">>

TokDot == <<".">>

TokReport == <<"a", "-", "r", ".", "t", "x", "t">>

\* a backslash and a newline: the command line goes on
TokContinue == <<"\\", "\n">>

TokChmod == <<"c", "h", "m", "o", "d">>

TokFile == <<"f">>

RECURSIVE join(_)
\* the tokens, separated by one space
join(tokens) ==
    IF Len(tokens) = 0 THEN <<>>
    ELSE IF Len(tokens) = 1 THEN tokens[1]
    ELSE tokens[1] \o <<" ">> \o join(Tail(tokens))

\* the arguments of the rm commands evaluated
RmArgs == {TokRf, TokF, TokSrc, TokTmp, TokDist, TokDot, TokReport, TokContinue, TokRm}

\* rm or /bin/rm with up to MaxArgs arguments
RmCommands ==
    { <<head>> \o args :
          head \in {TokRm, TokBinRm},
          args \in UNION {[1..n -> RmArgs] : n \in 0..MaxArgs} }

\* chmod m f for every three-digit octal mode m
ChmodCommands ==
    { <<TokChmod, <<u, g, o>>, TokFile>> : u \in OctalDigits, g \in OctalDigits,
                                            o \in OctalDigits }

\* the commands evaluated, as token lists
CommandTokens == RmCommands \cup ChmodCommands

InitPolicy ==
    /\ \E d \in InitialData :
          /\ \A i \in 1..NumFeatures : d[i].id = i /\ ~d[i].passes
          /\ files = [p \in {features_path, tmp_path} |->
                         IF p = features_path THEN Complete(d) ELSE Absent]
    /\ config = [start_from_feature |-> {}, stop_after_feature |-> {},
                 max_retries |-> DefaultMaxRetries]
    /\ ProcessInit
    /\ \E tokens \in CommandTokens :
          call = [op |-> "command", tokens |-> tokens, command |-> join(tokens)]
    /\ runner = NoRunner
    /\ HistoryInit

\* check_command_safety(command)
Evaluate ==
    /\ call.op = "command"
    /\ call' = [call EXCEPT !.op = "evaluate"] @@
               [reason |-> check_command_safety(call.command)]
    /\ UNCHANGED <<files, features, config, runner, loopvars, histvars>>

NextPolicy == Evaluate

SpecPolicy == InitPolicy /\ [][NextPolicy]_vars

-----------------------------------------------------------------------------
(* runner.py: FeatureRunner.run_feature, one call of it, with the session of   *)
(* the external agent as its environment                                       *)

\* exceptions the SDK client may raise: type name and message
SdkExceptions ==
    { [type |-> <<"O", "S", "E", "r", "r", "o", "r">>, msg |-> <<>>],
      [type |-> <<"O", "S", "E", "r", "r", "o", "r">>, msg |-> <<"x">>] }

\* run_feature: error_msg = f"{type(e).__name__}: {str(e)}"
crash_message(e) == e.type \o <<":", " ">> \o e.msg

\* the exception in flight: none, an Exception, or asyncio.CancelledError, which
\* is a BaseException and no Exception
NoExc == [kind |-> "none"]

Raised(e) == [kind |-> "Exception", e |-> e]

Cancelled == [kind |-> "CancelledError"]

\* the messages client.receive_messages() may yield
Messages ==
    { [type |-> "SystemMessage", subtype |-> "init", session_id |-> SessionId],
      [type |-> "AssistantMessage"] }
    \cup { [type |-> "ResultMessage", is_error |-> e, result |-> r,
            session_id |-> SessionId] :
              e \in BOOLEAN, r \in {None, ErrBuildFailed} }

\* run_feature: the locals after line 113, before the session is opened
RunnerLocals ==
    [pc |-> "enter", session_id |-> None, is_error |-> FALSE, error_msg |-> None,
     stall_task |-> "none", stalled |-> FALSE, interrupted |-> FALSE,
     active_client |-> FALSE, active_client_pid |-> FALSE,
     exc |-> NoExc, failure |-> "none", ret |-> NoResult,
     signal |-> NoSignal, tool |-> NoTool, interrupts |-> 0, result_seen |-> FALSE]

\* run_feature(feature) is called
RunFeatureCalled ==
    /\ runner.pc \in {"idle", "returned", "raised"}
    /\ runner' = [RunnerLocals EXCEPT !.pc = "prompt", !.signal = runner.signal]
    /\ UNCHANGED <<files, features, config, loopvars, call, histvars>>

\* prompt = build_feature_prompt(...), outside the try statement
BuildPrompt(ok) ==
    /\ runner.pc = "prompt"
    /\ runner' = IF ok THEN [runner EXCEPT !.pc = "enter"]
                 ELSE [runner EXCEPT !.pc = "raised", !.failure = "prompt"]
    /\ UNCHANGED <<files, features, config, loopvars, call, histvars>>

\* where an exception raised inside the try statement of line 115 goes:
\* except Exception catches an Exception, CancelledError leaves run_feature
exception_target(exc) == IF exc.kind = "Exception" THEN "except" ELSE "raised"

\* async with ClaudeSDKClient(options) as client: the session is opened
OpenSession(exc) ==
    /\ runner.pc = "enter"
    /\ runner' = IF exc = NoExc
                 THEN [runner EXCEPT !.pc = "query", !.active_client = TRUE]
                 ELSE [runner EXCEPT !.pc = exception_target(exc), !.exc = exc,
                                     !.failure = "open"]
    /\ UNCHANGED <<files, features, config, loopvars, call, histvars>>

\* await client.query(prompt), then _active_client_pid is set and the stall
\* detector task is created
Query(exc) ==
    /\ runner.pc = "query"
    /\ runner' = IF exc = NoExc
                 THEN [runner EXCEPT !.pc = "receive", !.stall_task = "sleeping",
                                     !.active_client_pid = TRUE]
                 ELSE [runner EXCEPT !.pc = exception_target(exc), !.exc = exc,
                                     !.failure = "communicate"]
    /\ UNCHANGED <<files, features, config, loopvars, call, histvars>>

\* one message of async for message in client.receive_messages()
Receive(message) ==
    /\ runner.pc = "receive"
    /\ runner' =
         CASE message.type = "SystemMessage" ->
                  [runner EXCEPT !.session_id = message.session_id]
           [] message.type = "AssistantMessage" ->
                  \* a tool use feeds the activity clock of the hooks
                  [runner EXCEPT !.stalled = FALSE]
           [] OTHER ->
                  [runner EXCEPT
                      !.is_error = message.is_error,
                      !.session_id = IF Truthy(@) THEN @ ELSE message.session_id,
                      !.error_msg = IF message.is_error THEN message.result ELSE @,
                      !.result_seen = TRUE,
                      !.pc = "finally"]
    /\ UNCHANGED <<files, features, config, loopvars, call, histvars>>

\* the stream ends with no ResultMessage, or raises
ReceiveEnds(exc) ==
    /\ runner.pc = "receive"
    /\ runner' = [runner EXCEPT !.pc = "finally", !.exc = exc,
                                !.failure = IF exc = NoExc THEN @ ELSE "communicate"]
    /\ UNCHANGED <<files, features, config, loopvars, call, histvars>>

\* hooks.is_stalled becomes true: no tool activity for stall_timeout seconds
StallTimeout ==
    /\ runner.pc = "receive"
    /\ ~runner.stalled
    /\ runner' = [runner EXCEPT !.stalled = TRUE]
    /\ UNCHANGED <<files, features, config, loopvars, call, histvars>>

\* a detector that returns at its wake-up without interrupting the client
StallDetectorGivesUp(ok) ==
    /\ runner.pc = "receive"
    /\ runner.stall_task = "sleeping"
    /\ runner.stalled
    /\ runner' = [runner EXCEPT !.stall_task = IF ok THEN "done" ELSE "failed"]
    /\ UNCHANGED <<files, features, config, loopvars, call, histvars>>

\* a detector that interrupts the client and goes on sleeping and watching
StallDetectorKeepsWatching(ok) ==
    /\ runner.pc = "receive"
    /\ runner.stall_task = "sleeping"
    /\ runner.stalled
    /\ runner' = [runner EXCEPT !.interrupted = TRUE,
                                !.interrupts = IF @ < 2 THEN @ + 1 ELSE @,
                                !.stall_task = IF ok THEN "sleeping" ELSE "failed"]
    /\ UNCHANGED <<files, features, config, loopvars, call, histvars>>

\* _stall_detector wakes up and finds hooks.is_stalled: client.interrupt(), return
StallDetector(ok) ==
    /\ runner.pc = "receive"
    /\ runner.stall_task = "sleeping"
    /\ runner.stalled
    /\ runner' = [runner EXCEPT !.interrupted = TRUE,
                                !.interrupts = IF @ < 2 THEN @ + 1 ELSE @,
                                !.stall_task = IF ok THEN "done" ELSE "failed"]
    /\ UNCHANGED <<files, features, config, loopvars, call, histvars>>

\* a hook that lets every command through
security_hook_allow_all(input_data) == NoHookOutput

\* OrchestratorHooks.security_hook
security_hook(input_data) ==
    IF input_data.hook_event_name /= "PreToolUse" THEN NoHookOutput
    ELSE IF input_data.tool_name /= "Bash" THEN NoHookOutput
    ELSE LET reason == check_command_safety(input_data.command)
         IN IF reason /= "None"
            THEN [permissionDecision |-> "deny",
                  permissionDecisionReason |->
                      <<"Blocked by orchestrator security policy", reason>>]
            ELSE NoHookOutput

\* the commands the agent asks to run in a session
HookCommands ==
    { join(<<TokRm, TokRf, TokSrc>>), join(<<TokRm, TokRf, TokDist>>),
      join(<<TokChmod, <<"7", "7", "7">>, TokFile>>) }

\* the agent asks for a tool: the PreToolUse hooks of the session's options,
\* security_hook under the matcher "Bash", then activity_tracker
PreToolUse(tool_name, command) ==
    /\ runner.pc = "receive"
    /\ runner' =
         [runner EXCEPT
             !.stalled = FALSE,
             !.tool = [tool_name |-> tool_name, command |-> command,
                       output |-> IF tool_name = "Bash"
                                  THEN security_hook(
                                           [hook_event_name |-> "PreToolUse",
                                            tool_name |-> tool_name,
                                            command |-> command])
                                  ELSE NoHookOutput]]
    /\ UNCHANGED <<files, features, config, loopvars, call, histvars>>

\* the positions at which run_feature is suspended in an await
RunnerSuspended == {"enter", "query", "receive", "finally"}

\* the positions inside async with ClaudeSDKClient(options) as client
SessionOpen == {"query", "receive", "finally"}

\* _handle_shutdown_signal while run_feature is suspended, with
\* FeatureRunner.kill_active_subprocess: SIGTERM goes to the process group of
\* _active_client_pid, if that is set
RunnerSignal ==
    /\ runner.pc \in RunnerSuspended
    /\ IF shutdown_requested
       THEN /\ runner' = [runner EXCEPT !.pc = "exited",
                                        !.active_client = FALSE,
                                        !.active_client_pid = FALSE]
            /\ UNCHANGED shutdown_requested
       ELSE /\ shutdown_requested' = TRUE
            /\ runner' = [runner EXCEPT
                             !.active_client = FALSE,
                             !.active_client_pid = FALSE,
                             !.signal = [arrived |-> TRUE,
                                         open |-> runner.pc \in SessionOpen,
                                         sent |-> runner.active_client_pid]]
    /\ signals' = IF signals < 2 THEN signals + 1 ELSE signals
    /\ UNCHANGED progress
    /\ UNCHANGED <<files, features, config, pc, save_ret, cur, attempt,
                   retries_remaining, last_result, result, consecutive_failures,
                   call, execs, base, round, committed, resumed, streak, log>>

\* a finally block that leaves the detector task as it is
FinallyWithoutCancel ==
    /\ runner.pc = "finally"
    /\ runner' = [runner EXCEPT
                     !.active_client = FALSE,
                     !.active_client_pid = FALSE,
                     !.pc = IF runner.exc = NoExc THEN "finish"
                            ELSE exception_target(runner.exc)]
    /\ UNCHANGED <<files, features, config, loopvars, call, histvars>>

\* the finally block: stall_task.cancel(), await stall_task (which raises what
\* the task raised, before the two resets), then the exception in flight goes on
Finally ==
    /\ runner.pc = "finally"
    /\ runner' =
         IF runner.stall_task = "failed"
         THEN [runner EXCEPT !.pc = "except", !.failure = "communicate",
                             !.exc = Raised(CHOOSE e \in SdkExceptions : e.msg = <<>>)]
         ELSE [runner EXCEPT
                  !.stall_task = IF @ = "sleeping" THEN "cancelled" ELSE @,
                  !.active_client = FALSE,
                  !.active_client_pid = FALSE,
                  !.pc = IF runner.exc = NoExc THEN "finish"
                         ELSE exception_target(runner.exc)]
    /\ UNCHANGED <<files, features, config, loopvars, call, histvars>>

\* except Exception as e
Except ==
    /\ runner.pc = "except"
    /\ runner' = [runner EXCEPT !.active_client = FALSE,
                                !.active_client_pid = FALSE,
                                !.is_error = TRUE,
                                !.error_msg = crash_message(runner.exc.e),
                                !.exc = NoExc,
                                !.pc = "finish"]
    /\ UNCHANGED <<files, features, config, loopvars, call, histvars>>

\* commit_hash = self._get_latest_commit_hash() if not is_error; return.
\* git log -1 gives the latest commit, made in the session or before it, or
\* nothing
Finish(commit_hash) ==
    /\ runner.pc = "finish"
    /\ runner' = [runner EXCEPT
                    !.pc = "returned",
                    !.ret = FeatureResult(~runner.is_error, runner.error_msg,
                                          runner.session_id,
                                          IF runner.is_error THEN None
                                          ELSE commit_hash)]
    /\ UNCHANGED <<files, features, config, loopvars, call, histvars>>

InitRunner ==
    /\ \E d \in InitialData :
          files = [p \in {features_path, tmp_path} |->
                      IF p = features_path THEN Complete(d) ELSE Absent]
    /\ config = [start_from_feature |-> {}, stop_after_feature |-> {},
                 max_retries |-> DefaultMaxRetries]
    /\ ProcessInit
    /\ call = NoCall
    /\ runner = NoRunner
    /\ HistoryInit

NextRunner ==
    \/ RunFeatureCalled
    \/ \E ok \in BOOLEAN : BuildPrompt(ok)
    \/ \E exc \in {NoExc, Cancelled} \cup {Raised(e) : e \in SdkExceptions} :
           OpenSession(exc)
    \/ \E exc \in {NoExc, Cancelled} \cup {Raised(e) : e \in SdkExceptions} :
           Query(exc)
    \/ \E message \in Messages : Receive(message)
    \/ \E exc \in {NoExc, Cancelled} \cup {Raised(e) : e \in SdkExceptions} :
           ReceiveEnds(exc)
    \/ StallTimeout
    \/ \E ok \in BOOLEAN : StallDetector(ok)
    \/ \E command \in HookCommands : PreToolUse("Bash", command)
    \/ PreToolUse("Read", <<>>)
    \/ RunnerSignal
    \/ Finally
    \/ Except
    \/ \E commit_hash \in {None, CommitHash, OldCommitHash} : Finish(commit_hash)

SpecRunner == InitRunner /\ [][NextRunner]_vars

\* the event loop runs the detector task whenever its sleep of 30 s is over
FairSpecRunner ==
    SpecRunner /\ WF_vars(\E ok \in BOOLEAN : StallDetector(ok))

-----------------------------------------------------------------------------
(* Claims *)

\* the positions at which the loop holds a loaded collection and is not inside
\* save_features: the suspension points, and the points to which mark_feature,
\* the skip decision and the retry decision return
OutsideSave ==
    SuspensionPoints \cup {"loop", "execute", "append_progress", "done", "exited"}

PassedOrSkipped(f) == f.status \in {"passed", "skipped"}

\* what the claims call eligible: passes = false, status /= skipped, id >= startFrom
ClaimEligible(f, start_from) ==
    /\ ~f.passes
    /\ f.status /= "skipped"
    /\ \A s \in start_from : f.id >= s

\* index i holds the lowest id among the eligible features of fs
LowestEligible(fs, i, start_from) ==
    /\ i \in 1..Len(fs)
    /\ ClaimEligible(fs[i], start_from)
    /\ \A j \in 1..Len(fs) : ClaimEligible(fs[j], start_from) => fs[i].id <= fs[j].id

\* C1: whenever the loop invokes the executor for a feature f, every feature g
\* with a lower id (and id >= startFrom when set) is already passed or skipped,
\* whatever the order of the records of the persisted list.
C1_AscendingIdOrder ==
    pc = "running" =>
        \A j \in 1..Len(features) :
            (/\ features[j].id < features[cur].id
             /\ \A s \in config.start_from_feature : features[j].id >= s)
            => PassedOrSkipped(features[j])

\* C2: get_next_feature returns the feature with the lowest id among those with
\* passes = false, status /= skipped and id >= startFrom, and None exactly when
\* there is no such feature.
C2_GetNextLowestId ==
    call.op = "get_next" =>
        LET some == \E j \in 1..Len(features) :
                        ClaimEligible(features[j], call.start_from)
        IN /\ (call.ret = 0) <=> ~some
           /\ call.ret /= 0 => LowestEligible(features, call.ret, call.start_from)

\* C3: mark_feature(id, result) adds exactly 1 to the feature's attempts and sets
\* last_session_id; on success passes = true, status = passed, commit_hash =
\* result.commit_hash, last_error = None; on failure status = failed, last_error =
\* result.error and passes is false afterwards; every other feature is unchanged.
C3_MarkFeature ==
    call.op = "mark" =>
        \A i \in 1..Len(features) :
            LET old == call.pre[i]
                new == features[i]
            IN IF old.id /= call.id
               THEN new = old
               ELSE /\ new.attempts = old.attempts + 1
                    /\ new.last_session_id = call.res.session_id
                    /\ call.res.success =>
                          /\ new.passes
                          /\ new.status = "passed"
                          /\ new.commit_hash = call.res.commit_hash
                          /\ new.last_error = None
                    /\ ~call.res.success =>
                          /\ new.status = "failed"
                          /\ new.last_error = call.res.error
                          /\ ~new.passes

\* C4: in every state of the store, and in every file save_features has written,
\* each feature has passes = true if and only if status = passed.
C4_PassesIffPassed ==
    /\ \A i \in 1..Len(features) :
           features[i].passes <=> features[i].status = "passed"
    /\ call.op = "mark" =>
           \A i \in 1..Len(files[features_path].data) :
               LET f == load_item(files[features_path].data[i])
               IN f.passes <=> f.status = "passed"

\* C5: whatever step of save_features the process is killed at, features.json
\* holds a complete serialization, the previous one until the rename and the new
\* one from it on, and load_features never fails on it.
C5_AtomicSave ==
    /\ files[features_path].kind = "complete"
    /\ committed /= <<>> => files[features_path] = serialize(committed)
    /\ pc /= "crashed"

\* C5 witness: the process was killed while the temporary file was being written,
\* was started again and has loaded features.json.
C5_Witness ==
    /\ resumed = "pending"
    /\ pc = "loop"
    /\ files[tmp_path] = Partial
    /\ Len(features) = NumFeatures

\* a feature up to what the file format does not tell apart: an empty text and
\* None, and the statuses pending and passed, which the file derives from passes
Canonical(f) ==
    [f EXCEPT !.status = IF @ \in {"pending", "passed"}
                         THEN (IF f.passes THEN "passed" ELSE "pending") ELSE @,
              !.last_error = IF Truthy(@) THEN @ ELSE None,
              !.last_session_id = IF Truthy(@) THEN @ ELSE None,
              !.commit_hash = IF Truthy(@) THEN @ ELSE None,
              !.attempts = IF @ > 0 THEN @ ELSE 0]

\* C6: at every suspension point and whenever mark_feature, a skip decision or a
\* retry decision has returned, the persisted list is equivalent to the
\* collection in memory.
C6_PersistedEqualsMemory ==
    pc \in OutsideSave =>
        /\ files[features_path].kind = "complete"
        /\ LET onDisk == load_features(files[features_path])
           IN /\ Len(onDisk) = Len(features)
              /\ \A i \in 1..Len(features) :
                     Canonical(onDisk[i]) = Canonical(features[i])

\* C6 witness: mark_feature has returned after recording a failure.
C6_Witness ==
    /\ pc = "append_progress"
    /\ features[cur].status = "failed"
    /\ features[cur].attempts = 2

\* C7: after a kill and a restart, (1) every feature whose passed or skipped
\* outcome was saved is still passed or skipped, and the attempts saved by
\* completed mark_feature calls are preserved; (2) such a feature is never
\* executed again; (3) the restarted loop resumes at the lowest-id eligible
\* feature.
C7_OutcomesSurvive ==
    (resumed = "pending" /\ pc = "loop") =>
        /\ Len(features) = Len(committed)
        /\ \A i \in 1..Len(features) :
               /\ PassedOrSkipped(committed[i]) =>
                      /\ features[i].status = committed[i].status
                      /\ features[i].passes = committed[i].passes
               /\ features[i].attempts = committed[i].attempts

C7_NeverExecutedAgain ==
    pc = "running" => ~PassedOrSkipped(committed[cur])

C7_ResumesAtLowestId ==
    (resumed = "first" /\ pc \in {"execute", "ask_retry_exhausted"}) =>
        LowestEligible(features, cur, config.start_from_feature)

C7_KillAndResume ==
    /\ C7_OutcomesSurvive
    /\ C7_NeverExecutedAgain
    /\ C7_ResumesAtLowestId

\* the retry round has returned and run() is recording its result
RoundReturned == pc = "save_dump" /\ save_ret = "append_progress"

\* C8: a retry round on a feature with attempts = a < max_retries in which every
\* attempt fails with a retriable error calls run_feature exactly
\* max_retries - a + 1 times and returns the failure of the last attempt.
C8_RoundLength ==
    (RoundReturned /\ round.all_retriable /\ round.a < config.max_retries) =>
        /\ round.calls = config.max_retries - round.a + 1
        /\ result = round.last
        /\ ~result.success

\* C8 witness: a round on a fresh feature (a = 0) went through all its attempts,
\* 4 with max_retries = 3.
C8_Witness ==
    /\ RoundReturned
    /\ round.all_retriable
    /\ round.a = 0
    /\ round.calls = DefaultMaxRetries + 1

\* C9: without an operator retry decision in between, run_feature is called for
\* one feature at most max_retries + 1 times in total.
C9_ExecutionBudget ==
    execs <= config.max_retries + 1

\* C10: at every iteration boundary of the loop, the attempts of the feature the
\* loop is at equal its attempts when the loop first selected it (or 0 since the
\* operator's last retry decision) plus the run_feature calls made for it since.
C10_AttemptsCountExecutions ==
    (pc = "loop" /\ cur /= 0) => features[cur].attempts = base + execs

\* what the claims call a non-retriable error text: one that holds, whatever
\* the case of its letters, one of the non-retriable keywords
ClaimNonRetriable(error) ==
    /\ Truthy(error)
    /\ \E kw \in non_retriable_keywords : contains(lower(error), kw)

\* an attempt with this result ends the retry round
EndsRound(res) == res.success \/ ClaimNonRetriable(res.error)

\* C11: within a retry round run_feature is not called again, and no backoff
\* sleep is started, after an attempt that succeeded or that failed with a
\* non-retriable error text; the round returns that attempt's result.
C11_StopsOnSuccessOrNonRetriable ==
    /\ pc = "backoff" => ~EndsRound(round.last)
    /\ (pc = "running" /\ round.calls > 1) => ~EndsRound(round.last)
    /\ (RoundReturned /\ EndsRound(round.last)) => result = round.last

\* C11 witness: the second attempt of a round failed with "EACCES: x" and the
\* round returned with retries remaining.
C11_Witness ==
    /\ RoundReturned
    /\ round.a = 0
    /\ round.calls = 2
    /\ result.error = ErrEacces

\* C12: after an attempt of a feature failed with a non-retriable error, the loop
\* does not call run_feature for that feature again unless the operator chose
\* retry: no new round starts on a feature whose previous round, with no retry
\* decision since, ended in a non-retriable error.
C12_NoRunAfterNonRetriable ==
    (pc = "running" /\ round.calls = 1 /\ execs > 1) =>
        ~ClaimNonRetriable(features[cur].last_error)

\* C13: run_feature is never called for a feature whose attempts >= max_retries
\* at selection unless the skip/retry/abort decision was presented and answered
\* retry: the loop head enters execution only below the budget, the decision is
\* left only by one of its three answers (or by the end of the process), and
\* execution is otherwise entered only by the retry answer.
C13_DecisionBeforeExhaustedRun ==
    [][ /\ (pc = "loop" /\ pc' = "execute") =>
               features'[cur'].attempts < config.max_retries
        /\ (pc = "loop" /\ pc' \notin {"loop", "dead"} /\ cur' /= 0
              /\ features'[cur'].attempts >= config.max_retries) =>
               pc' \in {"ask_retry_exhausted", "done"}
        /\ (pc = "ask_retry_exhausted" /\ pc' /= pc) =>
               \/ /\ pc' = "save_dump" /\ save_ret' = "loop"
                  /\ features'[cur].status = "skipped"
               \/ /\ pc' = "save_dump" /\ save_ret' = "execute"
                  /\ features'[cur].attempts = 0
               \/ pc' = "done"
               \/ pc' \in {"dead", "exited"}
        /\ (pc' = "running" /\ pc /= "running") => pc \in {"execute", "backoff"}
        /\ (pc' = "execute" /\ pc /= "execute") =>
               \/ pc = "loop"
               \/ pc = "save_rename" /\ save_ret = "execute"
        /\ (save_ret' = "execute" /\ save_ret /= "execute") =>
               pc = "ask_retry_exhausted"
      ]_vars

\* C13 witness: the operator answered retry for an exhausted feature, the reset
\* is saved and the feature is about to be executed.
C13_Witness ==
    /\ pc = "execute"
    /\ features[cur].status = "failed"
    /\ features[cur].attempts = 0
    /\ load_features(files[features_path])[cur].attempts = 0

\* a step that lowers the attempts of feature i
AttemptsDecrease(i) ==
    /\ i \in 1..Len(features)
    /\ Len(features') = Len(features)
    /\ features'[i].attempts < features[i].attempts

\* C14: attempts never decreases except by the operator's retry answer at the
\* exhausted-retries decision; that answer sets attempts to 0, leaves status
\* failed and passes false, is saved, and the feature is executed next with no
\* new selection.
C14_AttemptsResetOnlyByRetry ==
    /\ [][ \A i \in 1..NumFeatures :
               AttemptsDecrease(i) =>
                   /\ pc = "ask_retry_exhausted"
                   /\ i = cur
                   /\ features'[i] = [features[i] EXCEPT !.attempts = 0]
                   /\ features'[i].status = "failed"
                   /\ ~features'[i].passes
                   /\ pc' = "save_dump"
                   /\ save_ret' = "execute"
                   /\ cur' = cur ]_vars
    /\ [][ (pc = "save_rename" /\ save_ret = "execute" /\ pc' /= "dead") =>
               /\ pc' = "execute"
               /\ cur' = cur
               /\ load_features(files'[features_path])[cur].attempts = 0 ]_vars
    /\ [][ (pc = "execute" /\ pc' \notin {"execute", "dead"}) =>
               pc' = "running" /\ cur' = cur ]_vars

\* C14 witness: after the retry answer the feature, still failed and with
\* attempts 0, is being executed again.
C14_Witness ==
    /\ pc = "running"
    /\ features[cur].status = "failed"
    /\ features[cur].attempts = 0

\* C15: passed and skipped are terminal: a feature with status passed or skipped
\* is not selected or executed, and no step changes its status, passes or
\* attempts, neither in memory nor by a reload of the saved list.
C15_PassedSkippedTerminal ==
    /\ [](pc \in {"ask_retry_exhausted", "execute", "running", "backoff"} =>
              ~PassedOrSkipped(features[cur]))
    /\ [][ \A i \in 1..NumFeatures :
               (/\ i \in 1..Len(features)
                /\ Len(features') = Len(features)
                /\ PassedOrSkipped(features[i])) =>
                   /\ features'[i].status = features[i].status
                   /\ features'[i].passes = features[i].passes
                   /\ features'[i].attempts = features[i].attempts ]_vars
    /\ [][ (pc = "start" /\ pc' = "loop") =>
               \A i \in 1..Len(committed) :
                   PassedOrSkipped(committed[i]) =>
                       /\ features'[i].status = committed[i].status
                       /\ features'[i].passes = committed[i].passes
                       /\ features'[i].attempts = committed[i].attempts ]_vars

\* C15 witness: a feature is being executed while another one is skipped, after
\* its retries were exhausted.
C15_Witness ==
    /\ pc = "running"
    /\ \E i \in 1..Len(features) :
           /\ i /= cur
           /\ features[i].status = "skipped"
           /\ features[i].attempts = DefaultMaxRetries

\* C16: the continue/abort decision is presented exactly when three outcomes in
\* a row were failures, before run_feature is called again; a success and a
\* continue answer reset the streak, so that the counter never exceeds 3.
C16_CircuitBreaker ==
    /\ consecutive_failures = streak
    /\ consecutive_failures <= 3
    /\ pc = "ask_consecutive_failures" => streak = 3
    /\ pc \in {"loop", "ask_retry_exhausted", "execute", "running", "backoff",
              "pause"} => streak < 3

\* C16 witness: the decision is presented after three failures that followed a
\* success.
C16_Witness ==
    /\ pc = "ask_consecutive_failures"
    /\ \E i \in 1..Len(features) : features[i].passes /\ features[i].attempts = 1

\* C17: run_feature is never called for a feature with id < start_from or with
\* id > stop_after; when the feature selected has id > stop_after the run ends
\* without executing it.
C17_StartFromStopAfter ==
    /\ pc \in {"ask_retry_exhausted", "execute", "running", "backoff"} =>
           /\ \A s \in config.start_from_feature : features[cur].id >= s
           /\ \A s \in config.stop_after_feature : features[cur].id <= s
    /\ (cur /= 0 /\ Len(features) > 0
          /\ \E s \in config.stop_after_feature : features[cur].id > s) =>
           pc = "done"

\* C17 witness: the run ended at a feature past stop_after, after executing the
\* feature before it.
C17_Witness ==
    /\ pc = "done"
    /\ cur /= 0
    /\ ~shutdown_requested
    /\ \E s \in config.stop_after_feature : features[cur].id > s
    /\ \E i \in 1..Len(features) : features[i].passes /\ features[i].attempts = 1

\* the ids of the events of one kind in the log of a run, in their order
LogIds(kind) ==
    LET IsKind(e) == e[1] = kind
        events == SelectSeq(log, IsKind)
    IN [k \in 1..Len(events) |-> events[k][2]]

\* id within start_from and stop_after
InRange(id) ==
    /\ \A s \in config.start_from_feature : id >= s
    /\ \A s \in config.stop_after_feature : id <= s

\* the run has ended, every run_feature call of it succeeded and no signal
\* arrived
CleanRunEnded == pc = "done" /\ log /= Dirty

\* in such a run a feature was neither passed nor skipped at the start exactly
\* when it is not passed now or has been marked (the lists a run starts from
\* hold no attempts and no skipped feature)
InitiallyOpen(f) == ~f.passes \/ f.attempts > 0

\* C18: a run in which every run_feature call succeeds and no signal or abort
\* occurs ends having called run_feature exactly once for each feature within
\* start_from/stop_after that was neither passed nor skipped at the start, in
\* ascending order of id, with passes = true for each and one progress entry
\* per executed feature.
C18_AllSucceedRun ==
    CleanRunEnded =>
        LET ran == LogIds("run")
        IN /\ \A k \in 1..(Len(ran) - 1) : ran[k] < ran[k + 1]
           /\ {ran[k] : k \in 1..Len(ran)} =
                  {features[i].id : i \in {j \in 1..Len(features) :
                       InRange(features[j].id) /\ InitiallyOpen(features[j])}}
           /\ \A i \in 1..Len(features) :
                  (InRange(features[i].id) /\ InitiallyOpen(features[i])) =>
                      features[i].passes
           /\ LogIds("progress") = ran

\* C19: run_feature never raises past its own boundary: after a failure while
\* building the prompt, opening the session or communicating with the agent,
\* cancellation included, it returns a FeatureResult with success = false and a
\* non-empty error text.
C19_RunFeatureNeverRaises ==
    /\ runner.pc /= "raised"
    /\ (runner.pc = "returned" /\ runner.failure /= "none") =>
           /\ ~runner.ret.success
           /\ Truthy(runner.ret.error)

\* C20: when the stall watchdog has interrupted the session, the FeatureResult
\* of the attempt is a failure that _is_retriable_error classifies as retriable.
C20_StallIsRetriableFailure ==
    (runner.pc = "returned" /\ runner.interrupted) =>
        /\ ~runner.ret.success
        /\ is_retriable_error(runner.ret.error)

-----------------------------------------------------------------------------
\* the arguments of an rm command line, the line continuations left out
ClaimArgs(tokens) ==
    {k \in 2..Len(tokens) : tokens[k] /= TokContinue}

\* the command line has a flag with the letter r or R: a recursive rm
ClaimRecursive(tokens) ==
    \E k \in ClaimArgs(tokens) :
        /\ tokens[k][1] = "-"
        /\ \E j \in 2..Len(tokens[k]) : tokens[k][j] \in {"r", "R"}

\* the targets of the command line: its arguments that are no flags
ClaimTargets(tokens) ==
    {tokens[k] : k \in {j \in ClaimArgs(tokens) : tokens[j][1] /= "-"}}

\* the target, its leading ./ and trailing / stripped, is non-empty, is neither
\* . nor .., and its basename is in the allowlist
ClaimTargetAllowed(target) ==
    /\ cleaned(target) \notin {<<>>, <<".">>, <<".", ".">>}
    /\ basename(cleaned(target)) \in RM_RECURSIVE_ALLOWLIST

\* the command line is an invocation of rm, by its name or by its path
ClaimIsRm(tokens) == tokens[1] \in {TokRm, TokBinRm}

\* C27: a command that invokes rm with a recursive flag is blocked unless every
\* target, normalised, is non-empty, is not . or .. and has its basename in the
\* allowlist: one target outside the allowlist blocks the command, and so does an
\* rm token that cannot be located.
C27_RecursiveRmBlocked ==
    (/\ call.op = "evaluate"
     /\ ClaimIsRm(call.tokens)
     /\ ClaimRecursive(call.tokens)
     /\ \/ \E target \in ClaimTargets(call.tokens) : ~ClaimTargetAllowed(target)
        \/ call.tokens[1] /= TokRm) =>
        call.reason /= "None"

\* C28: a command with no recursive-delete indicator that no entry of the two
\* denylists matches is allowed; in particular rm without a recursive flag is
\* allowed whatever the file is called.
C28_NonRecursiveAllowed ==
    (/\ call.op = "evaluate"
     /\ ~ClaimRecursive(call.tokens)
     /\ blocked_substring(call.command) = "None"
     /\ blocked_pattern(call.command) = "None") =>
        call.reason = "None"

\* the mode has the world-write bit: its last octal digit has the bit of value 2
ClaimWorldWrite(mode) == mode[Len(mode)] \in {"2", "3", "6", "7"}

\* C29: chmod m f is blocked if and only if the octal mode m has the world-write
\* bit set.
C29_ChmodWorldWrite ==
    (call.op = "evaluate" /\ call.tokens[1] = TokChmod) =>
        ((call.reason /= "None") <=> ClaimWorldWrite(call.tokens[2]))

-----------------------------------------------------------------------------
\* C21: a session that is open and stalled does not stay so for ever: at one of
\* its wake-ups the detector asks the client to interrupt the session, unless
\* the session has ended or the agent has become active again by then.
C21_StallLeadsToInterrupt ==
    (runner.pc = "receive" /\ runner.stalled)
        ~> (runner.interrupted \/ runner.pc /= "receive" \/ ~runner.stalled)

\* C21 witness: the detector has interrupted a session that is still open and
\* stalled.
C21_Witness ==
    /\ runner.pc = "receive"
    /\ runner.stalled
    /\ runner.interrupted
    /\ runner.stall_task = "done"

\* C22: when the first interrupt signal arrives while a session is open, at any
\* point between its opening and its completion, the shutdown flag is latched
\* and the termination signal is sent to the agent's subprocess and its group.
C22_FirstSignalTerminatesSession ==
    (runner.signal.arrived /\ runner.signal.open) =>
        /\ shutdown_requested
        /\ runner.signal.sent

\* C30: every Bash action gets a deny decision that carries the blocking reason
\* if and only if check_command_safety blocks its command; the step that denies
\* leaves the session open and receiving, and changes neither the outcome of the
\* attempt so far nor the features, in memory or on disk.
C30_BashGatedByPolicy ==
    /\ [](runner.tool.tool_name = "Bash" =>
            LET reason == check_command_safety(runner.tool.command)
                output == runner.tool.output
            IN /\ (output.permissionDecision = "deny") <=> (reason /= "None")
               /\ reason /= "None" =>
                      output.permissionDecisionReason =
                          <<"Blocked by orchestrator security policy", reason>>)
    /\ [][ (runner'.tool /= runner.tool
              /\ runner'.tool.output.permissionDecision = "deny") =>
               /\ runner.pc = "receive"
               /\ runner'.pc = "receive"
               /\ runner'.is_error = runner.is_error
               /\ runner'.error_msg = runner.error_msg
               /\ runner'.exc = runner.exc
               /\ UNCHANGED <<features, files, pc, attempt, cur>> ]_vars

\* C30 witness: a session in which rm -rf src was denied went on and the attempt
\* succeeded.
C30_Witness ==
    /\ runner.tool.tool_name = "Bash"
    /\ runner.tool.command = join(<<TokRm, TokRf, TokSrc>>)
    /\ runner.tool.output.permissionDecision = "deny"
    /\ runner.pc = "returned"
    /\ runner.ret.success

-----------------------------------------------------------------------------
\* C23: once the shutdown flag is latched no new agent session is started:
\* run_feature is not called again, for a new feature or as a retry.
C23_NoSessionAfterLatch ==
    [][ shutdown_requested => ~(pc /= "running" /\ pc' = "running") ]_vars

\* C24: a second interrupt signal ends the process at once: from then on
\* run_feature is not called, nothing is written to the store and no decision
\* is asked of the operator.
C24_SecondSignalExits ==
    /\ [](signals >= 2 => pc = "exited")
    /\ [][ pc = "exited" => (pc' = "exited" /\ UNCHANGED <<files, features>>) ]_vars

\* C24 witness: the second signal arrived during the backoff sleep that followed
\* the first one.
C24_Witness ==
    /\ signals = 2
    /\ pc = "exited"
    /\ shutdown_requested
    /\ attempt >= 1
    /\ cur /= 0

\* the loop waits for a decision of the operator
AwaitingOperator == pc \in {"ask_retry_exhausted", "ask_consecutive_failures"}

\* C25: a wait for a decision of the operator ends, by an answer or by the
\* default taken at the timeout: the loop does not wait for ever.
C25_DecisionWaitEnds == AwaitingOperator ~> ~AwaitingOperator

\* the file is a well-formed feature list: a complete JSON list of records that
\* each have id, name, passes and steps
ClaimWellFormed(file) ==
    /\ file.kind = "complete"
    /\ \A i \in 1..Len(file.data) :
           {"id", "name", "passes", "steps"} \subseteq DOMAIN file.data[i]

\* C26: load_features on a file that is no well-formed feature list fails with
\* StateCorruptionError and loads nothing; the file stays as it was.
C26_MalformedListIsStateCorruption ==
    ~ClaimWellFormed(files[features_path]) =>
        /\ call.op \in {"none", "load_raised"}
        /\ call.op = "load_raised" => call.raised = "StateCorruptionError"
        /\ features = <<>>

-----------------------------------------------------------------------------
\* the positions of run_feature outside the receive loop and its finally block
OutsideSession ==
    {"idle", "prompt", "enter", "query", "except", "finish", "returned", "raised"}

\* C34: in one session the detector asks for the interrupt at most once, only
\* at a wake-up at which is_stalled holds, and is over once it has asked.
C34_InterruptAtMostOnce ==
    /\ [](runner.interrupts <= 1)
    /\ [][ runner'.interrupts > runner.interrupts =>
               /\ runner.pc = "receive"
               /\ runner.stalled
               /\ runner.stall_task = "sleeping"
               /\ runner'.stall_task \in {"done", "failed"} ]_vars
    /\ [][ runner.stall_task \in {"done", "failed", "cancelled"} =>
               \/ runner'.interrupts = runner.interrupts
               \/ runner'.pc = "prompt" ]_vars

\* C34 witness: a session that went on receiving after the interrupt and
\* stalled again.
C34_Witness ==
    /\ runner.pc = "receive"
    /\ runner.interrupts = 1
    /\ runner.stall_task = "done"
    /\ runner.stalled
    /\ runner.tool.tool_name = "Read"

\* C35: however the receive loop ends, the detector task is over before
\* run_feature goes on: no detector sleeps outside the session it was created
\* in, and an interrupt is asked for only while that session receives.
C35_DetectorJoined ==
    /\ [](runner.pc \in OutsideSession => runner.stall_task /= "sleeping")
    /\ [][ runner'.interrupts > runner.interrupts =>
               runner.pc = "receive" /\ runner'.pc = "receive" ]_vars

\* C35 witness: run_feature has returned from a session that was cancelled by
\* an error of the stream while its detector slept.
C35_Witness ==
    /\ runner.pc = "returned"
    /\ runner.failure = "communicate"
    /\ runner.stall_task = "cancelled"

\* C36: the result carries a commit hash only if the session did not report
\* failure and the commit was made during the session.
C36_CommitHashIsNew ==
    (runner.pc = "returned" /\ Truthy(runner.ret.commit_hash)) =>
        /\ ~runner.is_error
        /\ runner.ret.commit_hash /= OldCommitHash

\* C37: run_feature reports success only if the session delivered a
\* ResultMessage that is no error.
C37_SuccessNeedsResultMessage ==
    (runner.pc = "returned" /\ runner.ret.success) =>
        runner.result_seen /\ ~runner.is_error

-----------------------------------------------------------------------------
\* the file is a list in the minimal shape: every record has exactly the fields
\* id, name, passes and steps
ClaimMinimalShape(file) ==
    /\ file.kind = "complete"
    /\ \A i \in 1..Len(file.data) :
           DOMAIN file.data[i] = {"id", "name", "passes", "steps"}

\* C31: load_features followed by save_features on a list in the minimal shape
\* writes, for each feature, a record with exactly the fields id, name, passes
\* and steps and the values it had, and loading the file written gives the
\* collection in memory again.
C31_LegacyRoundTrip ==
    (call.op = "save" /\ ClaimMinimalShape(call.pre_file)) =>
        /\ files[features_path].kind = "complete"
        /\ Len(files[features_path].data) = Len(call.pre_file.data)
        /\ \A i \in 1..Len(call.pre_file.data) :
               /\ DOMAIN files[features_path].data[i] =
                      {"id", "name", "passes", "steps"}
               /\ \A k \in {"id", "name", "passes", "steps"} :
                      files[features_path].data[i][k] = call.pre_file.data[i][k]
        /\ load_features(files[features_path]) = features

\* C31 witness: a list of one pending and one passed feature, in descending
\* order of id, was loaded and saved.
C31_Witness ==
    /\ call.op = "save"
    /\ ClaimMinimalShape(call.pre_file)
    /\ features[1].id = NumFeatures
    /\ features[1].passes
    /\ ~features[NumFeatures].passes

-----------------------------------------------------------------------------
\* min(base^k, cap), written out for the claim
ClaimDelay(k) ==
    LET power == config.retry_backoff_base ^ k
    IN IF power < config.retry_backoff_max THEN power ELSE config.retry_backoff_max

\* C32: in a retry round no sleep precedes the first call of run_feature, one
\* sleep precedes every later call, the sleep before the k-th retry lasts
\* min(base^k, cap), and with base >= 1 the delays never decrease and never
\* exceed cap.
C32_BackoffDelays ==
    /\ round.calls = 0 => round.delays = <<>>
    /\ round.calls >= 1 => Len(round.delays) \in {round.calls - 1, round.calls}
    /\ pc = "running" => Len(round.delays) = round.calls - 1
    /\ pc = "backoff" => Len(round.delays) = round.calls
    /\ \A k \in 1..Len(round.delays) : round.delays[k] = ClaimDelay(k)
    /\ config.retry_backoff_base >= 1 =>
           \A k \in 1..Len(round.delays) :
               /\ round.delays[k] <= config.retry_backoff_max
               /\ k > 1 => round.delays[k - 1] <= round.delays[k]

\* C32 witness: the loop sleeps before the third retry of a round, and the cap
\* has cut the delay.
C32_Witness ==
    /\ pc = "backoff"
    /\ round.calls = 3
    /\ round.delays = <<2, 3, 3>>

\* the ids of the features a run under this configuration can execute
ClaimWouldRun ==
    { features[i].id : i \in { j \in 1..Len(features) :
          /\ eligible(features[j], config.start_from_feature)
          /\ ~past_stop_after(features[j], config.stop_after_feature) } }

\* C33: with dry_run, run() lists the features that would run and returns: no
\* call of run_feature, the collection in memory as loaded, the files and the
\* progress log as they were.
C33_DryRunListsAndLeaves ==
    call.op = "dry_run" =>
        /\ pc = "done"
        /\ execs = 0
        /\ features = load_features(files[features_path])
        /\ files = call.files
        /\ progress = NoProgress
        /\ {call.listed[k] : k \in 1..Len(call.listed)} = ClaimWouldRun

\* C38: the retry-exhausted decision is asked only for a feature that has
\* failed at least once, whatever max_retries is.
C38_DecisionAfterAnAttempt ==
    pc = "ask_retry_exhausted" =>
        /\ features[cur].status = "failed"
        /\ features[cur].attempts >= 1 \/ execs >= 1

\* the entry appended last and the persisted outcome of its feature agree
ClaimEntryMatches ==
    progress.last /= NoEntry =>
        /\ progress.last.status \in {"passed", "failed"}
        /\ files[features_path].kind = "complete"
        /\ \E i \in 1..Len(files[features_path].data) :
               LET f == load_item(files[features_path].data[i])
               IN /\ f.id = progress.last.feature_id
                  /\ f.status = progress.last.status
                  /\ f.passes = (progress.last.status = "passed")

\* a step that appends a progress entry
ClaimAppends == progress.last = NoEntry /\ progress'.last /= NoEntry

\* C40: a progress entry is appended only for an outcome mark_feature has
\* persisted, one entry per outcome, none for a skip, a retry reset or an abort;
\* the entries of a process never outnumber the outcomes it persisted, and each
\* entry's status is passed or failed as persisted.
C40_ProgressFollowsPersist ==
    /\ [](progress.owed \in {0, 1})
    /\ []ClaimEntryMatches
    /\ [][ClaimAppends => /\ pc = "append_progress"
                          /\ progress.owed = 1
                          /\ progress'.owed = 0
                          /\ committed = features]_vars
    /\ [][progress'.owed > progress.owed =>
              /\ pc = "save_rename" /\ save_ret = "append_progress"
              /\ pc' = "append_progress"]_vars
    /\ [][pc = "ask_retry_exhausted"
          \/ (pc \in {"save_dump", "save_rename"} /\ save_ret /= "append_progress")
              => (progress' = progress \/ pc' = "dead")]_vars

\* C40 witness: the entry of a failed outcome is appended and nothing is owed.
C40_Witness ==
    /\ progress.last.status = "failed"
    /\ progress.owed = 0
    /\ features[cur].status = "failed"
    /\ pc = "loop"

-----------------------------------------------------------------------------
\* the positions at which a run of the orchestrator is over
ClaimEnded == {"done", "exited", "crashed", "dead"}

\* the operator answers retry to the retry-exhausted prompt
ClaimRetryAnswered == AnswerRetryExhausted("retry")

\* f is passed or skipped
ClaimSettled(f) == f.passes \/ f.status = "skipped"

\* C39: with sessions that end, prompts that are answered and only finitely
\* many retry answers, every run ends; and a run that ends because
\* get_next_feature found nothing leaves every feature from start_from_feature
\* on passed or skipped, in memory and in the file.
C39_RunEnds ==
    /\ []((pc = "done" /\ cur = 0 /\ ~config.dry_run) =>
             /\ \A i \in 1..Len(features) :
                    (\A s \in config.start_from_feature : features[i].id >= s)
                        => ClaimSettled(features[i])
             /\ load_features(files[features_path]) = features)
    /\ \/ []<><<ClaimRetryAnswered>>_vars
       \/ [](pc = "start" => <>(pc \in ClaimEnded))

\* C39 witness: the run ended because no feature was left, after one feature
\* was skipped at the prompt and the other passed.
C39_Witness ==
    /\ pc = "done"
    /\ cur = 0
    /\ \E i \in 1..Len(features) : features[i].status = "skipped"
    /\ \E i \in 1..Len(features) : features[i].passes /\ features[i].attempts >= 1

====
